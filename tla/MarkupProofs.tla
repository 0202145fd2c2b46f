---------------------------- MODULE MarkupProofs ----------------------------
(***************************************************************************)
(* Proofs about module Markup, for every document whose title comes before *)
(* anything that is shown, wherever the client turns its pages and looks   *)
(* back.                                                                   *)
(***************************************************************************)
EXTENDS Markup, SequenceTheorems, FiniteSetTheorems, WellFoundedInduction, TLAPS

-----------------------------------------------------------------------------
(* Types.                                                                   *)

LEMMA DocType ==
  ASSUME TypeOK
  PROVE  /\ doc \in Seq(Words) /\ Len(doc) \in Nat /\ DOMAIN doc = 1 .. Len(doc) /\ off \in Nat
         /\ Here \in Nat /\ Len(doc) + 1 \in Nat
         /\ ~AtEnd => Here \in DOMAIN doc /\ Token \in Words /\ Token = doc[Here]
<1>1. doc \in Seq(Words)
      BY MarkupAssumption DEF MarkupAssumption, TypeOK
<1>2. Len(doc) \in Nat /\ DOMAIN doc = 1 .. Len(doc)
      BY <1>1, LenProperties
<1>3. off \in 0 .. Len(doc)
      BY DEF TypeOK
<1>4. ASSUME ~AtEnd
      PROVE  Here \in DOMAIN doc
  <2> DEFINE n == Len(doc)
  <2>1. n \in Nat /\ off \in 0 .. n /\ off # n
        BY <1>2, <1>3, <1>4 DEF AtEnd
  <2> HIDE DEF n
  <2>2. off + 1 \in 1 .. n
        BY <2>1
  <2> QED BY <1>2, <2>2 DEF Here, n
<1>5. ASSUME ~AtEnd
      PROVE  doc[Here] \in Words
      BY <1>1, <1>4, <1>5, ElementOfSeq, <1>2
<1> QED BY <1>1, <1>2, <1>3, <1>4, <1>5 DEF Here, Token

LEMMA PlainType ==
  ASSUME NEW k \in Nat, NEW kind \in Kinds
  PROVE  Plain(k, kind) \in Simple
BY DEF Plain, Glyph, Default, Style, Simple, Styles

LEMMA WordType ==
  ASSUME NEW k \in Nat, NEW kind \in Kinds, NEW font \in {0, 1}, NEW line \in Styles
  PROVE  Glyph(k, kind, font, line) \in Simple
BY DEF Glyph, Simple

LEMMA SimpleIsAny == Simple \subseteq AnyGlyph
<1>1. <<>> \in Seq(Simple)
      BY EmptySeq
<1> QED BY <1>1 DEF Simple, AnyGlyph

LEMMA DefaultType == Default \in Styles /\ FreshLine \in [style : Styles, n : 0 .. LineLen]
BY MarkupAssumption DEF MarkupAssumption, Default, Style, Styles, FreshLine

LEMMA AppendType ==
  ASSUME NEW S, NEW s \in Seq(S), NEW e \in S
  PROVE  Append(s, e) \in Seq(S)
BY AppendProperties

LEMMA JoinType ==
  ASSUME NEW S, NEW s \in Seq(S), NEW t \in Seq(S)
  PROVE  s \o t \in Seq(S)
BY ConcatProperties

\* A label is at most one glyph.
LEMMA LabelType ==
  ASSUME TypeOK
  PROVE  Label \in Seq(Simple) /\ NumberLabel \in Seq(Simple)
         /\ <<Plain(Here, "bullet")>> \in Seq(Simple) /\ <<>> \in Seq(Simple)
<1>1. Plain(Here, "number") \in Simple /\ Plain(Here, "letter") \in Simple
      /\ Plain(Here, "bullet") \in Simple
      BY DocType, PlainType DEF Kinds, Labels
<1> DEFINE N == Plain(Here, "number")
           L == Plain(Here, "letter")
           B == Plain(Here, "bullet")
<1> HIDE DEF N, L, B
<1>2. <<N>> \in Seq(Simple) /\ <<L>> \in Seq(Simple) /\ <<B>> \in Seq(Simple)
      /\ <<>> \in Seq(Simple)
      BY <1>1 DEF N, L, B
<1>3. Label \in {<<N>>, <<L>>, <<B>>, <<>>} /\ NumberLabel = <<N>>
      BY DEF Label, NumberLabel, N, L, B
<1> QED BY <1>2, <1>3 DEF B

\* Sequences of plain glyphs are sequences of glyphs.
LEMMA SimplesAreGlyphs ==
  ASSUME NEW s \in Seq(Simple)
  PROVE  s \in Glyphs
BY SimpleIsAny, SeqMonotonic DEF Glyphs

\* A run of words is cut behind its WORD_MAX-th glyph.
CutInTime == pc = "words" => countProcWord <= WordMax

TypeInv == TypeOK /\ CutInTime

LEMMA TypeStart == Init => TypeInv
<1> SUFFICES ASSUME Init PROVE TypeInv
    OBVIOUS
<1>1. <<>> \in Glyphs /\ <<>> \in Seq(Simple)
      BY EmptySeq DEF Glyphs
<1>2. doc \in Docs /\ Len(doc) \in Nat
      BY MarkupAssumption, LenProperties DEF MarkupAssumption, Init
<1>3. Hidden \in [listMode : ListModes, olType : OlTypes, headerMode : BOOLEAN,
                  delayed : Glyphs, resume : BOOLEAN]
      BY <1>1 DEF Hidden, Init, ListModes, OlTypes
<1>4. ShadowDocState(<<>>, 0) \in Saved
      BY <1>1, <1>2, <1>3, DefaultType DEF ShadowDocState, Saved, Init
<1>5. pages \in Seq(Saved)
      BY <1>4 DEF Init
<1>6. cell \in [glyphs : Seq(Simple), delayed : Seq(Simple), font : {0, 1}]
      BY <1>1 DEF Init, NoCell
<1>7. back \in [n : 0 .. MaxBack, page : Nat, same : BOOLEAN]
      BY MarkupAssumption DEF MarkupAssumption, Init
<1>8. off \in 0 .. Len(doc) /\ countProcWord \in 0 .. WordMax + 1
      BY <1>2, MarkupAssumption DEF MarkupAssumption, Init
<1>9. listMode \in ListModes /\ olType \in OlTypes
      BY DEF Init, ListModes, OlTypes
<1>10. TypeOK
      BY <1>1, <1>2, <1>5, <1>6, <1>7, <1>8, <1>9, DefaultType DEF TypeOK, Init
<1> QED BY <1>10 DEF TypeInv, CutInTime, Init

\* One glyph more in the buffer.
LEMMA BufferGrows ==
  ASSUME TypeOK, NEW g \in AnyGlyph
  PROVE  Append(glyphBuffer, g) \in Glyphs
BY AppendType DEF TypeOK, Glyphs

LEMMA PlainBuffered ==
  ASSUME TypeOK, NEW kind \in Kinds
  PROVE  Append(glyphBuffer, Plain(Here, kind)) \in Glyphs
BY BufferGrows, PlainType, SimpleIsAny, DocType

\* Steps of the parser outside tables that leave the buffer alone.
LEMMA TypeTags ==
  ASSUME TypeInv,
         Fill \/ Skip \/ ItemTag \/ ListTag \/ StyleTag \/ FontTag \/ TitleTag \/ EndWords
  PROVE  TypeInv'
<1> USE DEF modes, attribs, words, reader
<1>1. TypeOK
      BY DEF TypeInv
<1>2. ~AtEnd => Here \in 0 .. Len(doc)
      BY <1>1, DocType
<1>3. CASE Fill
  <2>1. /\ resumeProcWord' \in BOOLEAN /\ countProcWord' \in 0 .. WordMax + 1
        /\ pc' \in {"words", "tags"} /\ (pc' = "words" => countProcWord' <= WordMax)
    <3>1. 0 \in 0 .. WordMax + 1 /\ 0 <= WordMax
          BY MarkupAssumption DEF MarkupAssumption
    <3>2. CASE resumeProcWord
      <4>1. pc' = "words" /\ resumeProcWord' = FALSE /\ countProcWord' = 0
            BY <1>3, <3>2 DEF Fill, FreshCount
      <4> QED BY <3>1, <4>1
    <3>3. CASE ~resumeProcWord
          BY <1>1, <1>3, <3>3 DEF Fill, TypeOK
    <3> QED BY <3>2, <3>3
  <2> QED BY <1>1, <1>3, <2>1 DEF TypeInv, TypeOK, CutInTime, Fill, Saved
<1>4. CASE Skip
      BY <1>1, <1>2, <1>4 DEF TypeInv, TypeOK, CutInTime, Skip, Tag, Read, Here, Saved
<1>5. CASE ItemTag
  <2>1. Queued(Label) \in Glyphs
        BY <1>1, LabelType, SimplesAreGlyphs, JoinType DEF Queued, TypeOK, Glyphs
  <2> QED BY <1>1, <1>2, <1>5, <2>1 DEF TypeInv, TypeOK, CutInTime, ItemTag, Tag, Read, Here, Saved
<1>6. CASE ListTag
  <2>1. ListModeOf(Token) \in ListModes /\ OlTypeReset(Token) \in OlTypes
        BY <1>1 DEF ListModeOf, OlTypeReset, ListModes, OlTypes, TypeOK
  <2> QED BY <1>1, <1>2, <1>6, <2>1 DEF TypeInv, TypeOK, CutInTime, ListTag, Tag, Read, Here, Saved
<1>7. CASE StyleTag
  <2>1. Style(1, 1) \in Styles /\ Default \in Styles
        BY DEF Style, Default, Styles
  <2>2. ASSUME NEW st \in Styles
        PROVE  Styled(st) \in Styles
        BY <1>1 DEF Styled, Styles, TypeOK
  <2>3. lineAttrib' \in Styles
        BY <1>7, <2>1, <2>2 DEF StyleTag
  <2> QED BY <1>1, <1>2, <1>7, <2>3 DEF TypeInv, TypeOK, CutInTime, StyleTag, Tag, Read, Here, Saved
<1>8. CASE FontTag
      BY <1>1, <1>2, <1>8 DEF TypeInv, TypeOK, CutInTime, FontTag, Tag, Read, Here, Saved
<1>9. CASE TitleTag
  <2>1. [lineAttrib EXCEPT !.align = 1] \in Styles
        BY <1>1 DEF TypeOK, Styles
  <2>2. lineAttrib' \in Styles /\ glyphAttrib' \in {0, 1}
        BY <1>1, <1>9, <2>1, DefaultType DEF TitleTag, TypeOK
  <2> QED BY <1>1, <1>2, <1>9, <2>2 DEF TypeInv, TypeOK, CutInTime, TitleTag, Tag, Read, Here, Saved
<1>10. CASE EndWords
      BY <1>1, <1>10 DEF TypeInv, TypeOK, CutInTime, EndWords, Saved
<1> QED BY <1>3, <1>4, <1>5, <1>6, <1>7, <1>8, <1>9, <1>10

\* Steps of the parser outside tables that make glyphs.
LEMMA TypeGlyphs ==
  ASSUME TypeInv, AtEof \/ BreakTag \/ ImgTag \/ BeginWords \/ Word
  PROVE  TypeInv'
<1> USE DEF modes, attribs, words, reader
<1>1. TypeOK
      BY DEF TypeInv
<1>2. ~AtEnd => Here \in 0 .. Len(doc)
      BY <1>1, DocType
<1>3. CASE AtEof
  <2>1. Eof \in AnyGlyph
        BY <1>1, DocType, PlainType, SimpleIsAny DEF Eof, Kinds
  <2>2. NoCell \in [glyphs : Seq(Simple), delayed : Seq(Simple), font : {0, 1}]
        BY EmptySeq DEF NoCell
  <2> QED BY <1>1, <1>3, <2>1, <2>2, BufferGrows DEF TypeInv, TypeOK, CutInTime, AtEof, Saved
<1>4. CASE BreakTag
  <2>1. Append(glyphBuffer, Plain(Here, "break")) \in Glyphs
        BY <1>1, PlainBuffered DEF Kinds
  <2> QED BY <1>1, <1>2, <1>4, <2>1 DEF TypeInv, TypeOK, CutInTime, BreakTag, Tag, Read, Here, Saved
<1>5. CASE ImgTag
  <2>1. Append(glyphBuffer, Plain(Here, "img")) \in Glyphs
        BY <1>1, PlainBuffered DEF Kinds
  <2> QED BY <1>1, <1>2, <1>5, <2>1 DEF TypeInv, TypeOK, CutInTime, ImgTag, Tag, Read, Here, Saved
<1>6. CASE BeginWords
  <2>1. glyphBuffer \o delayedToken \in Glyphs /\ <<>> \in Glyphs
        BY <1>1, JoinType, EmptySeq DEF TypeOK, Glyphs
  <2>2. [curLine EXCEPT !.style = lineAttrib] \in [style : Styles, n : 0 .. LineLen]
        BY <1>1 DEF TypeOK
  <2> QED BY <1>1, <1>6, <2>1, <2>2, MarkupAssumption
          DEF MarkupAssumption, TypeInv, TypeOK, CutInTime, BeginWords, FreshCount, Saved
<1>7. CASE Word
  <2>1. Shown(Token) \in Kinds /\ Here \in Nat
        BY <1>1, <1>7, DocType DEF Word, Kinds, Shown, Chars
  <2>2. Glyph(Here, Shown(Token), glyphAttrib, Default) \in AnyGlyph
        BY <1>1, <2>1, WordType, SimpleIsAny, DefaultType DEF TypeOK
  <2>3. glyphBuffer' \in Glyphs
        BY <1>1, <1>7, <2>2, BufferGrows DEF Word, TypeOK
  <2>4. countProcWord \in Nat /\ countProcWord <= WordMax /\ WordMax \in Nat
        BY <1>1, <1>7, MarkupAssumption DEF MarkupAssumption, TypeInv, TypeOK, CutInTime, Word
  <2>5. countProcWord' \in 0 .. WordMax + 1 /\ resumeProcWord' \in BOOLEAN
        /\ (pc' = "words" => countProcWord' <= WordMax) /\ pc' \in {"ask", "words"}
    <3>1. /\ countProcWord' = countProcWord + 1
          /\ resumeProcWord' = (countProcWord + 1 > WordMax)
          /\ pc' = IF resumeProcWord' THEN "ask" ELSE "words"
          BY <1>7 DEF Word
    <3>2. countProcWord + 1 \in 0 .. WordMax + 1
          BY <2>4
    <3>3. resumeProcWord' \in BOOLEAN /\ (~resumeProcWord' => countProcWord + 1 <= WordMax)
      <4> DEFINE late == countProcWord + 1 > WordMax
      <4>1. late \in BOOLEAN /\ (late \/ countProcWord + 1 <= WordMax)
            BY <2>4
      <4> HIDE DEF late
      <4>2. resumeProcWord' = late
            BY <3>1 DEF late
      <4> QED BY <4>1, <4>2, Zenon
    <3> QED BY <3>1, <3>2, <3>3
  <2> QED BY <1>1, <1>2, <1>7, <2>3, <2>5 DEF TypeInv, TypeOK, CutInTime, Word, Read, Here, Saved
<1> QED BY <1>3, <1>4, <1>5, <1>6, <1>7

\* Steps inside a table.
LEMMA TypeTable ==
  ASSUME TypeInv,
         TableTag \/ CellBegin \/ CellTag \/ CellListTag \/ CellSkip \/ CellWords
           \/ CellWord \/ CellWordsEnd \/ CellEnd \/ TableEnd
  PROVE  TypeInv'
<1> USE DEF modes, attribs, words, reader
<1> DEFINE C == [glyphs : Seq(Simple), delayed : Seq(Simple), font : {0, 1}]
<1>1. TypeOK /\ cell \in C
      BY DEF TypeInv, TypeOK
<1>2. ~AtEnd => Here \in 0 .. Len(doc)
      BY <1>1, DocType
<1>3. NoCell \in C /\ <<>> \in Seq(Simple)
      BY EmptySeq DEF NoCell
<1>4. CASE TableTag
      BY <1>1, <1>2, <1>3, <1>4 DEF TypeInv, TypeOK, CutInTime, TableTag, Tag, Read, Here, Saved
<1>5. CASE CellBegin
  <2>1. cell' \in C
        BY <1>1, <1>3, <1>5 DEF CellBegin
  <2> QED BY <1>1, <1>2, <1>5, <2>1
          DEF TypeInv, TypeOK, CutInTime, CellBegin, InTable, Read, Here, Saved
<1>6. CASE CellTag
  <2>1. Append(cell.glyphs, Plain(Here, "break")) \in Seq(Simple)
        BY <1>1, AppendType, PlainType, DocType DEF Kinds
  <2>2. /\ cell.delayed \o NumberLabel \in Seq(Simple)
        /\ cell.delayed \o <<Plain(Here, "bullet")>> \in Seq(Simple)
        /\ cell.delayed \o <<>> \in Seq(Simple)
        BY <1>1, LabelType, JoinType
  <2>3. Token \in {"br", "li", "font", "/font"}
        BY <1>6 DEF CellTag, InTable
  <2>4. ASSUME Token = "br"
        PROVE  cell' \in C
    <3>1. cell' = [cell EXCEPT !.glyphs = Append(cell.glyphs, Plain(Here, "break"))]
          BY <1>6, <2>4 DEF CellTag
    <3> QED BY <1>1, <2>1, <3>1
  <2>5. ASSUME Token = "li"
        PROVE  cell' \in C
    <3>1. cell' \in {[cell EXCEPT !.delayed = cell.delayed \o NumberLabel],
                     [cell EXCEPT !.delayed = cell.delayed \o <<Plain(Here, "bullet")>>],
                     [cell EXCEPT !.delayed = cell.delayed \o <<>>]}
          BY <1>1, <1>6, <2>5 DEF CellTag, TypeOK, ListModes
    <3> QED BY <1>1, <2>2, <3>1
  <2>6. ASSUME Token \in {"font", "/font"}
        PROVE  cell' \in C
    <3>1. cell' \in {[cell EXCEPT !.font = 1], [cell EXCEPT !.font = 0]}
          BY <1>6, <2>6 DEF CellTag
    <3> QED BY <1>1, <3>1
  <2>7. cell' \in C
        BY <2>3, <2>4, <2>5, <2>6
  <2> QED BY <1>1, <1>2, <1>6, <2>7
          DEF TypeInv, TypeOK, CutInTime, CellTag, InTable, Read, Here, Saved
<1>7. CASE CellListTag
  <2>1. ListModeOf(Token) \in ListModes
        BY DEF ListModeOf, ListModes
  <2> QED BY <1>1, <1>2, <1>7, <2>1
          DEF TypeInv, TypeOK, CutInTime, CellListTag, InTable, Read, Here, Saved
<1>8. CASE CellSkip
      BY <1>1, <1>2, <1>8 DEF TypeInv, TypeOK, CutInTime, CellSkip, InTable, Read, Here, Saved
<1>9. CASE CellWords
  <2>1. cell.glyphs \o cell.delayed \in Seq(Simple)
        BY <1>1, JoinType
  <2>2. cell' \in C
        BY <1>1, <1>3, <1>9, <2>1 DEF CellWords
  <2> QED BY <1>1, <1>9, <2>2 DEF TypeInv, TypeOK, CutInTime, CellWords, Saved
<1>10. CASE CellWord
  <2> DEFINE k == IF Token = "e" THEN "ampersand" ELSE Shown(Token)
  <2>1. k \in Kinds
        BY <1>10 DEF CellWord, InTable, Kinds, Shown, Chars
  <2> HIDE DEF k
  <2>2. Glyph(Here, k, cell.font, lineAttrib) \in Simple
        BY <1>1, <2>1, WordType, DocType DEF TypeOK
  <2>3. Append(cell.glyphs, Glyph(Here, k, cell.font, lineAttrib)) \in Seq(Simple)
        BY <1>1, <2>2, AppendType
  <2>4. cell' = [cell EXCEPT !.glyphs = Append(cell.glyphs, Glyph(Here, k, cell.font, lineAttrib))]
        BY <1>10 DEF CellWord, k
  <2>5. cell' \in C
        BY <1>1, <2>3, <2>4
  <2> QED BY <1>1, <1>2, <1>10, <2>5
          DEF TypeInv, TypeOK, CutInTime, CellWord, InTable, Read, Here, Saved
<1>11. CASE CellWordsEnd
      BY <1>1, <1>11 DEF TypeInv, TypeOK, CutInTime, CellWordsEnd, Saved
<1>12. CASE CellEnd
      BY <1>1, <1>2, <1>12 DEF TypeInv, TypeOK, CutInTime, CellEnd, InTable, Read, Here, Saved
<1>13. CASE TableEnd
  <2>1. Plain(Here, "table") \in AnyGlyph
        BY <1>1, DocType, PlainType, SimpleIsAny DEF Kinds
  <2>2. [Plain(Here, "table") EXCEPT !.cells = cell.glyphs] \in AnyGlyph
        BY <1>1, <2>1 DEF AnyGlyph
  <2>3. glyphBuffer' \in Glyphs
        BY <1>1, <1>13, <2>2, BufferGrows DEF TableEnd
  <2> QED BY <1>1, <1>2, <1>3, <1>13, <2>3
          DEF TypeInv, TypeOK, CutInTime, TableEnd, InTable, Read, Here, Saved
<1> QED BY <1>4, <1>5, <1>6, <1>7, <1>8, <1>9, <1>10, <1>11, <1>12, <1>13

\* Steps of the client.
LEMMA HeadType ==
  ASSUME TypeOK, glyphBuffer # <<>>
  PROVE  /\ Head(glyphBuffer) \in AnyGlyph /\ Tail(glyphBuffer) \in Glyphs
         /\ [Head(glyphBuffer) EXCEPT !.line = LineOf(Head(glyphBuffer)).style] \in AnyGlyph
         /\ LineAfter(Head(glyphBuffer)) \in [style : Styles, n : 0 .. LineLen]
<1>1. Head(glyphBuffer) \in AnyGlyph /\ Tail(glyphBuffer) \in Glyphs
      BY HeadTailProperties DEF TypeOK, Glyphs
<1> DEFINE g == Head(glyphBuffer)
           L == [style : Styles, n : 0 .. LineLen]
<1>2. LineOf(g) \in L /\ (g.kind # "break" => LineOf(g).n < LineLen)
      BY DefaultType, MarkupAssumption DEF MarkupAssumption, LineOf, TypeOK, FreshLine
<1>3. LineAfter(g) \in L
      BY <1>2, DefaultType, MarkupAssumption DEF MarkupAssumption, LineAfter
<1>4. [g EXCEPT !.line = LineOf(g).style] \in AnyGlyph
  <2>1. LineOf(g).style \in Styles
        BY <1>2
  <2> QED BY <1>1, <2>1 DEF AnyGlyph
<1> QED BY <1>1, <1>3, <1>4

LEMMA PageType ==
  ASSUME TypeOK, NEW p \in DOMAIN pages
  PROVE  /\ pages[p].offset \in 0 .. Len(doc) /\ pages[p].buffer \in Glyphs
         /\ pages[p].glyphAttrib \in {0, 1} /\ pages[p].lineAttrib \in Styles
         /\ pages[p].from \in Nat
<1>1. pages[p] \in Saved
      BY ElementOfSeq, LenProperties DEF TypeOK
<1> QED BY <1>1 DEF Saved

LEMMA TypeClient ==
  ASSUME TypeInv, Take \/ TurnPage \/ \E p \in 1 .. MaxPages : RestoreDocState(p)
  PROVE  TypeInv'
<1> USE DEF modes, attribs, words, reader
<1>1. TypeOK
      BY DEF TypeInv
<1>2. CASE Take
  <2> DEFINE set == [Head(glyphBuffer) EXCEPT !.line = LineOf(Head(glyphBuffer)).style]
  <2>1. set \in AnyGlyph /\ glyphBuffer' \in Glyphs /\ curLine' \in [style : Styles, n : 0 .. LineLen]
        BY <1>1, <1>2, HeadType DEF Take
  <2>2. Append(first, set) \in Glyphs /\ Append(shown, set) \in Glyphs
        BY <1>1, <2>1, AppendType DEF TypeOK, Glyphs
  <2>3. first' \in Glyphs /\ shown' \in Glyphs
        BY <1>1, <1>2, <2>2 DEF Take, TypeOK
  <2> QED BY <1>1, <1>2, <2>1, <2>3 DEF TypeInv, TypeOK, CutInTime, Take, Saved
<1>3. CASE TurnPage
  <2>1. Len(first) \in Nat
        BY <1>1, LenProperties DEF TypeOK, Glyphs
  <2>2. ShadowDocState(glyphBuffer, Len(first)) \in Saved
        BY <1>1, <2>1 DEF ShadowDocState, Saved, Hidden, TypeOK
  <2>3. pages' \in Seq(Saved)
        BY <1>1, <1>3, <2>2, AppendType DEF TurnPage, TypeOK
  <2> QED BY <1>1, <1>3, <2>3, DefaultType DEF TypeInv, TypeOK, CutInTime, TurnPage, Saved
<1>4. ASSUME NEW p \in 1 .. MaxPages, RestoreDocState(p)
      PROVE  TypeInv'
  <2>2. /\ pages[p].offset \in 0 .. Len(doc) /\ pages[p].buffer \in Glyphs
        /\ pages[p].glyphAttrib \in {0, 1} /\ pages[p].lineAttrib \in Styles
        BY <1>1, <1>4, PageType DEF RestoreDocState
  <2>3. LineLeft \in [style : Styles, n : 0 .. LineLen]
    <3>1. [curLine EXCEPT !.n = 0] \in [style : Styles, n : 0 .. LineLen]
      <4>1. 0 \in 0 .. LineLen /\ curLine \in [style : Styles, n : 0 .. LineLen]
            BY <1>1, MarkupAssumption DEF MarkupAssumption, TypeOK
      <4> QED BY <4>1
    <3> QED BY <3>1, DefaultType DEF LineLeft
  <2>4. SameModes(pages[p].hidden) \in BOOLEAN
        BY DEF SameModes
  <2>5. back' \in [n : 0 .. MaxBack, page : Nat, same : BOOLEAN]
        BY <1>1, <1>4, <2>4, MarkupAssumption DEF MarkupAssumption, RestoreDocState, TypeOK
  <2>6. <<>> \in Glyphs
        BY EmptySeq DEF Glyphs
  <2> QED BY <1>1, <1>4, <2>2, <2>3, <2>5, <2>6
          DEF TypeInv, TypeOK, CutInTime, RestoreDocState, RestoredBuffer, RestoredFont,
              RestoredLine, Saved
<1> QED BY <1>2, <1>3, <1>4

LEMMA TypeStep ==
  ASSUME TypeInv, [Next]_vars
  PROVE  TypeInv'
<1>1. CASE Parser
      BY <1>1, TypeTags, TypeGlyphs, TypeTable DEF Parser
<1>2. CASE UNCHANGED vars
      BY <1>2 DEF vars, modes, attribs, words, reader, TypeInv, TypeOK, CutInTime, Saved
<1> QED BY <1>1, <1>2, TypeClient DEF Next

LEMMA TypeAlways == Spec => []TypeInv
<1>1. Init => TypeInv
      BY TypeStart
<1>2. TypeInv /\ [Next]_vars => TypeInv'
      BY TypeStep
<1> QED BY <1>1, <1>2, PTL DEF Spec

\* What the parser and the page files hold is well formed in every state.
THEOREM MarkupTypes == Spec => []TypeOK
<1>1. TypeInv => TypeOK
      BY DEF TypeInv
<1> QED BY <1>1, TypeAlways, PTL

-----------------------------------------------------------------------------
(* Where the parser stands.                                                 *)

TitleTags == {"title", "/title"}
FontTags  == {"font", "/font", "/title"}
StyleTags == {"ind", "noi", "/title"}

\* Tags before token k that are in no cell, and the last of them.
Outside(k, tags) == {j \in 1 .. k - 1 : doc[j] \in tags /\ CellOf(j) = {}}
LastOutside(k, tags) == LET S == Outside(k, tags) IN IF S = {} THEN "" ELSE doc[LastIn(S)]
FontOutside(k) == IF LastOutside(k, FontTags) = "font" THEN 1 ELSE 0
Given(A)    == IF A # {} /\ doc[LastIn(A)] = "ind" THEN 1 ELSE 0
Unlisted(k) == {j \in Outside(k, StyleTags) : ListAt(j) = "/list"}
StyleOutside(k) == Style(Given(Unlisted(k)), Given(Outside(k, StyleTags)))

\* Token k is in the title, or not even the title lies before it.
InHead(k) == \E t \in 1 .. k - 1 : doc[t] = "title" /\ \A i \in t .. k - 1 : doc[i] # "/title"
Blank(k)  == \A j \in 1 .. k - 1 : doc[j] \in {"x", "b", "nl"}

\* Text outside cells has the font of its place, and none is of the title.
Written(g) ==
  g.kind \in Text =>
    g.tok \in DOMAIN doc /\ CellOf(g.tok) = {} /\ ~InHead(g.tok) /\ g.font = FontOutside(g.tok)
AllWritten(s) == \A i \in DOMAIN s : Written(s[i])

\* The parser's mode is in a cell if the token at hand is.
CellKnown == ~AtEnd => ((pc \in {"td", "cell", "cellwords"}) <=> CellOf(Here) # {})

\* The attributes in force are those of the token at hand, text is dropped in
\* a title.
FontKnown  == glyphAttrib = FontOutside(Here)
TitleKnown == InHead(Here) => headerMode

GlyphsWritten ==
  /\ AllWritten(glyphBuffer) /\ AllWritten(first) /\ AllWritten(shown)
  /\ \A i \in DOMAIN delayedToken : delayedToken[i].kind \in Labels

\* Until the title is read nothing is made that a page could begin with.
Quiet ==
  /\ back.n = 0 /\ (Blank(Here) \/ InHead(Here)) =>
       /\ pc \in {"ask", "tags", "words"}
       /\ delayedToken = <<>> /\ \A i \in DOMAIN glyphBuffer : glyphBuffer[i].kind = "eof"
  /\ back.n = 0 /\ Blank(Here) =>
       ~resumeProcWord /\ (pc = "words" => ~AtEnd /\ Token \in {"c", "e"})

\* What a page file keeps is right for the place it goes back to.
PageWritten(s) ==
  LET k == s.offset + 1
  IN  /\ AllWritten(s.buffer)
      /\ k # Len(doc) + 1 => CellOf(k) = {}
      /\ s.glyphAttrib = FontOutside(k)
      /\ ~InHead(k)
PagesWritten == \A p \in DOMAIN pages : PageWritten(pages[p])

FontInv == CellKnown /\ FontKnown /\ TitleKnown /\ GlyphsWritten /\ Quiet /\ PagesWritten

\* The last of a set of tokens is in it, and the others are before it.
LEMMA LastIs ==
  ASSUME NEW n \in Nat, NEW S \in SUBSET (1 .. n), S # {}
  PROVE  LastIn(S) \in S /\ \A j \in S : j <= LastIn(S)
<1> DEFINE M == {m \in Nat : n - m \in S}
<1>1. M \in SUBSET Nat /\ M # {}
  <2>1. PICK j \in S : TRUE
        OBVIOUS
  <2>2. n - j \in Nat /\ n - (n - j) = j
        BY <2>1
  <2>3. n - j \in M
        BY <2>1, <2>2
  <2> QED BY <2>3
<1>2. PICK m \in M : \A y \in M : <<y, m>> \notin OpToRel(<, Nat)
      BY <1>1, NatLessThanWellFounded, WFMin, Zenon
<1>3. ASSUME NEW j \in S PROVE j <= n - m
  <2>1. m \in Nat /\ n - j \in Nat /\ n - (n - j) = j
        OBVIOUS
  <2>2. n - j \in M
        BY <2>1
  <2>3. n - j < m => <<n - j, m>> \in OpToRel(<, Nat)
        BY <2>1 DEF OpToRel
  <2>4. ~(n - j < m)
        BY <1>2, <2>2, <2>3, Zenon
  <2> QED BY <2>1, <2>4
<1>4. n - m \in S /\ \A j \in S : j <= n - m
      BY <1>3
<1> QED BY <1>4 DEF LastIn

LEMMA LastJoined ==
  ASSUME NEW k \in Nat, NEW S \in SUBSET (1 .. k - 1)
  PROVE  LastIn(S \cup {k}) = k
<1>1. \A j \in S \cup {k} : j <= k
      OBVIOUS
<1>2. \A m \in S \cup {k} : (\A j \in S \cup {k} : j <= m) => m = k
      OBVIOUS
<1>3. LastIn(S \cup {k}) \in S \cup {k} /\ \A j \in S \cup {k} : j <= LastIn(S \cup {k})
      BY <1>1 DEF LastIn
<1> QED BY <1>2, <1>3

LEMMA PlacesBefore ==
  ASSUME NEW k \in Nat \ {0}
  PROVE  /\ (k + 1) - 1 = k /\ 1 .. k = (1 .. k - 1) \cup {k} /\ k \notin 1 .. k - 1
         /\ \A j \in 1 .. k - 1 : j .. k = (j .. k - 1) \cup {k}
         /\ k .. k = {k}
OBVIOUS

\* Only <td> and </td> change the cell.
LEMMA CellNext ==
  ASSUME NEW k \in Nat \ {0}
  PROVE  CellOf(k + 1) = IF doc[k] = "/td" THEN {}
                         ELSE CellOf(k) \cup (IF doc[k] = "td" THEN {k} ELSE {})
<1>1. CellOf(k + 1) = {j \in 1 .. k : doc[j] = "td" /\ \A i \in j .. k : doc[i] # "/td"}
      BY PlacesBefore DEF CellOf
<1>2. CellOf(k) = {j \in 1 .. k - 1 : doc[j] = "td" /\ \A i \in j .. k - 1 : doc[i] # "/td"}
      BY DEF CellOf
<1>3. \A j \in 1 .. k - 1 : (\A i \in j .. k : doc[i] # "/td") <=>
                            (doc[k] # "/td" /\ \A i \in j .. k - 1 : doc[i] # "/td")
      BY PlacesBefore
<1>4. \A j \in 1 .. k : j \in CellOf(k + 1) <=>
        (doc[k] # "/td" /\ (j \in CellOf(k) \/ (j = k /\ doc[k] = "td")))
      BY <1>1, <1>2, <1>3, PlacesBefore
<1>5. CellOf(k + 1) \subseteq 1 .. k /\ CellOf(k) \subseteq 1 .. k
      BY <1>1, <1>2, PlacesBefore
<1> DEFINE A == CellOf(k + 1)
           B == CellOf(k)
<1>6. \A j : j \in A <=> (doc[k] # "/td" /\ (j \in B \/ (j = k /\ doc[k] = "td")))
  <2>1. B \subseteq 1 .. k - 1 /\ k \in 1 .. k
        BY <1>2
  <2> HIDE DEF A, B
  <2> QED BY <1>4, <1>5, <2>1 DEF A, B
<1> HIDE DEF A, B
<1>7. A = IF doc[k] = "/td" THEN {} ELSE B \cup (IF doc[k] = "td" THEN {k} ELSE {})
      BY <1>6
<1> QED BY <1>7 DEF A, B

LEMMA OutsideNext ==
  ASSUME NEW k \in Nat \ {0}, NEW tags
  PROVE  /\ Outside(k, tags) \in SUBSET (1 .. k - 1)
         /\ Outside(k + 1, tags) =
              Outside(k, tags) \cup (IF doc[k] \in tags /\ CellOf(k) = {} THEN {k} ELSE {})
BY PlacesBefore DEF Outside

LEMMA LastOutsideNext ==
  ASSUME NEW k \in Nat \ {0}, NEW tags
  PROVE  LastOutside(k + 1, tags) =
           IF doc[k] \in tags /\ CellOf(k) = {} THEN doc[k] ELSE LastOutside(k, tags)
<1>1. CASE doc[k] \in tags /\ CellOf(k) = {}
  <2>1. Outside(k + 1, tags) = Outside(k, tags) \cup {k}
        BY <1>1, OutsideNext
  <2>2. LastIn(Outside(k, tags) \cup {k}) = k
        BY OutsideNext, LastJoined
  <2>3. LastIn(Outside(k + 1, tags)) = k
        BY <2>1, <2>2, Zenon
  <2> QED BY <1>1, <2>1, <2>3 DEF LastOutside
<1>2. CASE ~(doc[k] \in tags /\ CellOf(k) = {})
      BY <1>2, OutsideNext DEF LastOutside
<1> QED BY <1>1, <1>2

LEMMA FontNext ==
  ASSUME NEW k \in Nat \ {0}
  PROVE  FontOutside(k + 1) =
           IF CellOf(k) # {} \/ doc[k] \notin FontTags THEN FontOutside(k)
           ELSE IF doc[k] = "font" THEN 1 ELSE 0
BY LastOutsideNext DEF FontOutside

LEMMA HeadNext ==
  ASSUME NEW k \in Nat \ {0}
  PROVE  /\ InHead(k + 1) <=> (doc[k] = "title" \/ (InHead(k) /\ doc[k] # "/title"))
         /\ Blank(k + 1) <=> (Blank(k) /\ doc[k] \in {"x", "b", "nl"})
<1>1. InHead(k + 1) <=>
        \E t \in 1 .. k : doc[t] = "title" /\ \A i \in t .. k : doc[i] # "/title"
      BY PlacesBefore DEF InHead
<1>2. \A j \in 1 .. k - 1 : (\A i \in j .. k : doc[i] # "/title") <=>
                            (doc[k] # "/title" /\ \A i \in j .. k - 1 : doc[i] # "/title")
      BY PlacesBefore
<1>3. InHead(k + 1) <=> (doc[k] = "title" \/ (InHead(k) /\ doc[k] # "/title"))
      BY <1>1, <1>2, PlacesBefore DEF InHead
<1>4. Blank(k + 1) <=> (Blank(k) /\ doc[k] \in {"x", "b", "nl"})
      BY PlacesBefore DEF Blank
<1> QED BY <1>3, <1>4

\* What the head of a document can be.
LEMMA HeadShape ==
  ASSUME TypeOK, NEW k \in DOMAIN doc
  PROVE  /\ InHead(k) => doc[k] \in Chars \cup {"x", "/title"}
         /\ doc[k] = "title" => Blank(k)
         /\ doc[k] \in TitleTags \/ InHead(k) =>
              \A j \in 1 .. k - 1 : doc[j] \in Chars \cup {"x", "title"}
<1>1. doc \in Docs /\ DOMAIN doc = 1 .. Len(doc) /\ Len(doc) \in Nat /\ k \in Nat
      BY DocType DEF TypeOK
<1>2. ASSUME NEW t \in DOMAIN doc, doc[t] = "title"
      PROVE  /\ \A j \in 1 .. t - 1 : doc[j] \in {"x", "b", "nl"}
             /\ \E j \in t + 1 .. Len(doc) : doc[j] = "/title"
      BY <1>1, <1>2, TitleAssumption
<1>3. ASSUME NEW t \in DOMAIN doc, doc[t] = "/title"
      PROVE  \A j \in 1 .. t - 1 : doc[j] \in Chars \cup {"x", "title"}
      BY <1>1, <1>3, TitleAssumption
<1>4. doc[k] = "title" => Blank(k)
      BY <1>2 DEF Blank
<1>5. ASSUME InHead(k)
      PROVE  /\ doc[k] \in Chars \cup {"x", "/title"}
             /\ \A j \in 1 .. k - 1 : doc[j] \in Chars \cup {"x", "title"}
  <2>1. PICK t \in 1 .. k - 1 : doc[t] = "title" /\ \A i \in t .. k - 1 : doc[i] # "/title"
        BY <1>5 DEF InHead
  <2>2. t \in DOMAIN doc
        BY <1>1, <2>1
  <2>3. PICK e \in t + 1 .. Len(doc) : doc[e] = "/title"
        BY <1>2, <2>1, <2>2
  <2>4. e \in DOMAIN doc /\ e >= k /\ t < k
        BY <1>1, <2>1, <2>3
  <2>5. \A j \in 1 .. e - 1 : doc[j] \in Chars \cup {"x", "title"}
        BY <1>3, <2>3, <2>4
  <2>6. doc[k] # "title"
    <3>1. t \in 1 .. k - 1
          BY <2>1
    <3> QED BY <1>2, <2>1, <3>1
  <2>7. k = e \/ k \in 1 .. e - 1
        BY <1>1, <2>4
  <2>8. doc[k] \in Chars \cup {"x", "/title"}
        BY <2>3, <2>5, <2>6, <2>7
  <2>9. \A j \in 1 .. k - 1 : j \in 1 .. e - 1
        BY <1>1, <2>4
  <2> QED BY <2>5, <2>8, <2>9
<1>6. doc[k] = "title" => \A j \in 1 .. k - 1 : doc[j] \in Chars \cup {"x", "title"}
      BY <1>2 DEF Text, Chars
<1> QED BY <1>3, <1>4, <1>5, <1>6 DEF TitleTags

\* No cell before the title, nor in it.
LEMMA NoCellInHead ==
  ASSUME TypeOK, NEW k \in DOMAIN doc, doc[k] \in TitleTags \/ InHead(k)
  PROVE  CellOf(k) = {}
BY HeadShape DEF CellOf, Text, Chars

\* The document stays, and with it all that is said of its places.
LEMMA DocStays ==
  ASSUME [Next]_vars
  PROVE  doc' = doc
BY DEF Next, Parser, vars, modes, attribs, words, reader, Fill, AtEof, Skip, BreakTag, ImgTag,
       ItemTag, ListTag, StyleTag, FontTag, TitleTag, BeginWords, Word, EndWords, TableTag,
       CellBegin, CellTag, CellListTag, CellSkip, CellWords, CellWord, CellWordsEnd, CellEnd,
       TableEnd, InTable, Take, TurnPage, RestoreDocState

LEMMA PlacesStay ==
  ASSUME doc' = doc
  PROVE  /\ \A k : CellOf(k)' = CellOf(k)
         /\ \A k : FontOutside(k)' = FontOutside(k)
         /\ \A k : InHead(k)' <=> InHead(k)
         /\ \A k : Blank(k)' <=> Blank(k)
         /\ \A g : Written(g)' <=> Written(g)
         /\ \A s : AllWritten(s)' <=> AllWritten(s)
         /\ \A s : PageWritten(s)' <=> PageWritten(s)
<1>1. \A k : CellOf(k)' = CellOf(k)
      BY DEF CellOf
<1>2. \A k, tags : Outside(k, tags)' = Outside(k, tags)
      BY <1>1 DEF Outside
<1>3. \A k : FontOutside(k)' = FontOutside(k)
      BY <1>2 DEF FontOutside, LastOutside
<1>4. \A k : (InHead(k)' <=> InHead(k)) /\ (Blank(k)' <=> Blank(k))
      BY DEF InHead, Blank
<1>5. \A g : Written(g)' <=> Written(g)
      BY <1>1, <1>3, <1>4 DEF Written
<1>6. \A s : AllWritten(s)' <=> AllWritten(s)
      BY <1>5 DEF AllWritten
<1>7. \A s : PageWritten(s)' <=> PageWritten(s)
      BY <1>1, <1>3, <1>4, <1>6 DEF PageWritten
<1> QED BY <1>1, <1>3, <1>4, <1>5, <1>6, <1>7

\* One token on.
LEMMA ReadOn ==
  ASSUME TypeOK, ~AtEnd, Read, doc' = doc
  PROVE  /\ CellOf(Here)' = IF Token = "/td" THEN {}
                            ELSE CellOf(Here) \cup (IF Token = "td" THEN {Here} ELSE {})
         /\ FontOutside(Here)' = IF CellOf(Here) # {} \/ Token \notin FontTags
                                 THEN FontOutside(Here) ELSE IF Token = "font" THEN 1 ELSE 0
         /\ InHead(Here)' <=> (Token = "title" \/ (InHead(Here) /\ Token # "/title"))
         /\ Blank(Here)' <=> (Blank(Here) /\ Token \in {"x", "b", "nl"})
<1>1. Here \in Nat \ {0} /\ Token = doc[Here] /\ Here' = Here + 1
      BY DocType DEF Here, Token, Read
<1> QED BY <1>1, PlacesStay, CellNext, FontNext, HeadNext

-----------------------------------------------------------------------------
(* Fonts and titles.                                                        *)

PlaceInv == CellKnown /\ FontKnown /\ TitleKnown
Cellular == {"td", "cell", "cellwords"}

\* A token that changes neither font nor title, where it stands.
LEMMA ReadPlain ==
  ASSUME TypeOK, PlaceInv, ~AtEnd, Read, doc' = doc,
         glyphAttrib' = glyphAttrib, headerMode' = headerMode,
         Token \notin {"td", "/td"}, Token \in FontTags \cup TitleTags => pc \in Cellular,
         pc' \in Cellular <=> pc \in Cellular
  PROVE  PlaceInv'
<1>1. pc \in Cellular <=> CellOf(Here) # {}
      BY DEF PlaceInv, CellKnown, Cellular
<1>2. Token \in TitleTags => CellOf(Here) = {}
      BY NoCellInHead, DocType
<1>3. CellKnown'
      BY <1>1, ReadOn DEF CellKnown, Cellular
<1>4. FontKnown'
      BY <1>1, ReadOn DEF FontKnown, PlaceInv
<1>5. Token \notin TitleTags
      BY <1>1, <1>2
<1>6. TitleKnown'
      BY <1>5, ReadOn DEF TitleKnown, PlaceInv, TitleTags
<1> QED BY <1>3, <1>4, <1>6 DEF PlaceInv

LEMMA StayPlain ==
  ASSUME TypeOK, PlaceInv, off' = off, doc' = doc,
         glyphAttrib' = glyphAttrib, headerMode' = headerMode,
         AtEnd \/ (pc' \in Cellular <=> pc \in Cellular)
  PROVE  PlaceInv'
<1>1. Here' = Here /\ (AtEnd' <=> AtEnd)
      BY DEF Here, AtEnd
<1>2. CellKnown'
      BY <1>1, PlacesStay DEF CellKnown, PlaceInv, Cellular
<1>3. FontKnown' /\ TitleKnown'
      BY <1>1, PlacesStay DEF FontKnown, TitleKnown, PlaceInv
<1> QED BY <1>2, <1>3 DEF PlaceInv

LEMMA PlaceStep ==
  ASSUME TypeOK, PlaceInv, PagesWritten, [Next]_vars
  PROVE  PlaceInv'
<1> USE DEF modes, attribs, words, reader
<1>1. doc' = doc
      BY DocStays
<1>2. CASE Fill \/ AtEof \/ BeginWords \/ EndWords \/ CellWords \/ CellWordsEnd \/ Take \/ TurnPage
  <2>1. /\ off' = off /\ glyphAttrib' = glyphAttrib /\ headerMode' = headerMode
        /\ AtEnd \/ (pc' \in Cellular <=> pc \in Cellular)
        BY <1>2 DEF Fill, AtEof, BeginWords, EndWords, CellWords, CellWordsEnd, Take, TurnPage,
                    Cellular
  <2> QED BY <1>1, <2>1, StayPlain
<1>3. CASE Skip \/ BreakTag \/ ImgTag \/ ItemTag \/ ListTag \/ StyleTag \/ Word \/ TableTag
  <2>1. /\ ~AtEnd /\ Read /\ glyphAttrib' = glyphAttrib /\ headerMode' = headerMode
        /\ Token \notin {"td", "/td"} \cup FontTags \cup TitleTags
        /\ pc' \notin Cellular /\ pc \notin Cellular
        BY <1>3 DEF Skip, BreakTag, ImgTag, ItemTag, ListTag, StyleTag, Word, TableTag, Tag,
                    Cellular, FontTags, TitleTags, Lists, Text, Chars
  <2> QED BY <1>1, <2>1, ReadPlain
<1>4. CASE CellTag \/ CellListTag \/ CellSkip \/ CellWord
  <2>1. /\ ~AtEnd /\ Read /\ glyphAttrib' = glyphAttrib /\ headerMode' = headerMode
        /\ Token \notin {"td", "/td"} /\ (pc' \in Cellular <=> pc \in Cellular)
        /\ Token \in FontTags \cup TitleTags => pc \in Cellular
        BY <1>4 DEF CellTag, CellListTag, CellSkip, CellWord, InTable, Cellular, Lists, Text, Chars,
                    FontTags, TitleTags
  <2> QED BY <1>1, <2>1, ReadPlain
<1>5. CASE TableEnd
  <2>1. /\ ~AtEnd /\ Read /\ glyphAttrib' = glyphAttrib /\ headerMode' = headerMode
        /\ Token \notin {"td", "/td"} \cup FontTags \cup TitleTags
        /\ pc' \notin Cellular /\ pc \notin Cellular
        BY <1>5 DEF TableEnd, InTable, Cellular, FontTags, TitleTags
  <2> QED BY <1>1, <2>1, ReadPlain
<1>6. CASE FontTag \/ TitleTag
  <2>1. /\ ~AtEnd /\ Read /\ pc = "tags" /\ pc' = "tags"
        /\ Token \in {"font", "/font", "title", "/title"}
        /\ headerMode' = IF Token \in TitleTags THEN Token = "title" ELSE headerMode
        /\ glyphAttrib' = IF Token = "font" THEN 1 ELSE IF Token = "title" THEN glyphAttrib ELSE 0
    <3>1. CASE FontTag
          BY <3>1 DEF FontTag, Tag, TitleTags
    <3>2. CASE TitleTag
          BY <3>2 DEF TitleTag, Tag, TitleTags
    <3> QED BY <1>6, <3>1, <3>2
  <2>2. CellOf(Here) = {}
        BY <2>1 DEF PlaceInv, CellKnown
  <2>3. CellKnown' /\ FontKnown'
        BY <1>1, <2>1, <2>2, ReadOn DEF CellKnown, FontKnown, PlaceInv, FontTags
  <2>4. TitleKnown'
        BY <1>1, <2>1, ReadOn DEF TitleKnown, PlaceInv, TitleTags
  <2> QED BY <2>3, <2>4 DEF PlaceInv
<1>7. CASE CellBegin \/ CellEnd
  <2>1. /\ ~AtEnd /\ Read /\ glyphAttrib' = glyphAttrib /\ headerMode' = headerMode
        /\ Token = (IF pc' \in Cellular THEN "td" ELSE "/td")
        BY <1>7 DEF CellBegin, CellEnd, InTable, Cellular
  <2>2. CellKnown'
        BY <1>1, <2>1, ReadOn DEF CellKnown, Cellular
  <2>3. FontKnown' /\ TitleKnown'
        BY <1>1, <2>1, ReadOn DEF FontKnown, TitleKnown, PlaceInv, FontTags
  <2> QED BY <2>2, <2>3 DEF PlaceInv
<1>8. ASSUME NEW p \in 1 .. MaxPages, RestoreDocState(p)
      PROVE  PlaceInv'
  <2>1. /\ off' = pages[p].offset /\ glyphAttrib' = pages[p].glyphAttrib /\ pc' = "ask"
        /\ PageWritten(pages[p])
        BY <1>8 DEF RestoreDocState, RestoredFont, PagesWritten
  <2> DEFINE k == pages[p].offset + 1
  <2>2. Here' = k /\ (~AtEnd' => k # Len(doc) + 1)
    <3>1. off' \in Nat /\ Len(doc) \in Nat
          BY <1>8, <2>1, DocType, PageType DEF RestoreDocState
    <3> QED BY <1>1, <2>1, <3>1 DEF Here, AtEnd
  <2>3. CellKnown' /\ FontKnown' /\ TitleKnown'
        BY <1>1, <2>1, <2>2, PlacesStay DEF PageWritten, CellKnown, FontKnown, TitleKnown
  <2> QED BY <2>3 DEF PlaceInv
<1>9. CASE UNCHANGED vars
      BY <1>1, <1>9, StayPlain DEF vars
<1> QED BY <1>2, <1>3, <1>4, <1>5, <1>6, <1>7, <1>8, <1>9 DEF Next, Parser

\* Sequences of text as it should be.
LEMMA WrittenAppend ==
  ASSUME NEW s \in Glyphs, AllWritten(s), NEW g \in AnyGlyph, Written(g)
  PROVE  AllWritten(Append(s, g))
<1>1. /\ \A i \in 1 .. Len(s) : Append(s, g)[i] = s[i]
      /\ Append(s, g)[Len(s) + 1] = g /\ Len(s) \in Nat
      /\ DOMAIN Append(s, g) = (1 .. Len(s)) \cup {Len(s) + 1} /\ DOMAIN s = 1 .. Len(s)
      BY AppendProperties, LenProperties DEF Glyphs
<1> QED BY <1>1 DEF AllWritten

LEMMA WrittenJoin ==
  ASSUME NEW s \in Glyphs, AllWritten(s), NEW t \in Glyphs, AllWritten(t)
  PROVE  AllWritten(s \o t)
<1>1. /\ s \in Seq(AnyGlyph) /\ t \in Seq(AnyGlyph)
      /\ Len(s) \in Nat /\ Len(t) \in Nat /\ DOMAIN s = 1 .. Len(s) /\ DOMAIN t = 1 .. Len(t)
      BY LenProperties DEF Glyphs
<1>2. /\ DOMAIN (s \o t) = 1 .. Len(s) + Len(t)
      /\ \A i \in 1 .. Len(s) + Len(t) :
           (s \o t)[i] = IF i <= Len(s) THEN s[i] ELSE t[i - Len(s)]
      BY <1>1, ConcatProperties, LenProperties
<1>3. \A i \in 1 .. Len(s) + Len(t) : i \in DOMAIN s \/ (i > Len(s) /\ i - Len(s) \in DOMAIN t)
      BY <1>1
<1>4. \A i \in DOMAIN s : i <= Len(s)
      BY <1>1
<1> QED BY <1>2, <1>3, <1>4, <1>1 DEF AllWritten

LEMMA WrittenTail ==
  ASSUME NEW s \in Glyphs, AllWritten(s), s # <<>>
  PROVE  AllWritten(Tail(s)) /\ Written(Head(s))
<1>1. /\ s \in Seq(AnyGlyph) /\ Len(s) \in Nat /\ DOMAIN s = 1 .. Len(s)
      BY LenProperties DEF Glyphs
<1>2. /\ Head(s) = s[1] /\ 1 \in DOMAIN s
      /\ \A i \in DOMAIN Tail(s) : Tail(s)[i] = s[i + 1] /\ i + 1 \in DOMAIN s
      BY <1>1, HeadTailProperties, LenProperties, EmptySeq
<1> QED BY <1>2 DEF AllWritten

LEMMA PlainWritten ==
  ASSUME NEW k, NEW kind \in Kinds \ Text
  PROVE  Written(Plain(k, kind)) /\ Plain(k, kind).kind = kind
BY DEF Written, Plain, Glyph

LEMMA LabelKinds == \A i \in DOMAIN Label : Label[i].kind \in Labels
<1>1. \A kind \in Labels : \A i \in DOMAIN <<Plain(Here, kind)>> :
        <<Plain(Here, kind)>>[i].kind \in Labels
      BY DEF Plain, Glyph
<1>2. \/ \E kind \in Labels : Label = <<Plain(Here, kind)>>
      \/ Label = <<>>
      BY DEF Label, NumberLabel, Labels
<1>3. DOMAIN <<>> = {}
      OBVIOUS
<1> QED BY <1>1, <1>2, <1>3

\* Labels before labels.
LEMMA LabelsJoin ==
  ASSUME TypeOK, \A i \in DOMAIN delayedToken : delayedToken[i].kind \in Labels
  PROVE  \A i \in DOMAIN Queued(Label) : Queued(Label)[i].kind \in Labels
<1> DEFINE s == delayedToken
           t == Label
<1>1. s \in Seq(AnyGlyph) /\ t \in Seq(AnyGlyph)
      BY LabelType, SimplesAreGlyphs DEF TypeOK, Glyphs
<1>2. Len(s) \in Nat /\ Len(t) \in Nat /\ DOMAIN s = 1 .. Len(s) /\ DOMAIN t = 1 .. Len(t)
      BY <1>1, LenProperties
<1>3. /\ DOMAIN (s \o t) = 1 .. Len(s) + Len(t)
      /\ \A i \in 1 .. Len(s) + Len(t) :
           (s \o t)[i] = IF i <= Len(s) THEN s[i] ELSE t[i - Len(s)]
      BY <1>1, ConcatProperties, LenProperties
<1>4. \A i \in 1 .. Len(s) + Len(t) : i \in DOMAIN s \/ (i > Len(s) /\ i - Len(s) \in DOMAIN t)
      BY <1>2
<1>5. \A i \in DOMAIN s : i <= Len(s)
      BY <1>2
<1>6. \A i \in DOMAIN t : t[i].kind \in Labels
      BY LabelKinds
<1> HIDE DEF s, t
<1>7. \A i \in DOMAIN s : s[i].kind \in Labels
      BY DEF s
<1>8. \A i \in DOMAIN (s \o t) : (s \o t)[i].kind \in Labels
      BY <1>2, <1>3, <1>4, <1>5, <1>6, <1>7
<1> QED BY <1>8 DEF Queued, s, t

\* Every glyph is made as it should be.
LEMMA GlyphsStep ==
  ASSUME TypeInv, PlaceInv, GlyphsWritten, PagesWritten, [Next]_vars
  PROVE  GlyphsWritten'
<1> USE DEF modes, attribs, words, reader
<1>1. doc' = doc /\ TypeOK
      BY DocStays DEF TypeInv
<1>2. /\ AllWritten(glyphBuffer)' <=> AllWritten(glyphBuffer')
      /\ AllWritten(first)' <=> AllWritten(first')
      /\ AllWritten(shown)' <=> AllWritten(shown')
      BY <1>1, PlacesStay
<1>3. glyphBuffer \in Glyphs /\ delayedToken \in Glyphs /\ first \in Glyphs /\ shown \in Glyphs
      BY <1>1 DEF TypeOK
<1> DEFINE Labelling(s) == \A i \in DOMAIN s : s[i].kind \in Labels
<1>4. AllWritten(glyphBuffer) /\ AllWritten(first) /\ AllWritten(shown) /\ Labelling(delayedToken)
      BY DEF GlyphsWritten
<1>5. ASSUME AllWritten(glyphBuffer'), AllWritten(first'), AllWritten(shown'),
             Labelling(delayedToken')
      PROVE  GlyphsWritten'
      BY <1>2, <1>5 DEF GlyphsWritten
<1> HIDE DEF Labelling
<1>6. Labelling(<<>>) /\ AllWritten(<<>>)
      BY DEF Labelling, AllWritten
<1>7. ASSUME NEW s \in Glyphs, Labelling(s) PROVE AllWritten(s)
      BY <1>7 DEF Labelling, AllWritten, Written, Labels, Text
<1>8. CASE Fill \/ Skip \/ ListTag \/ StyleTag \/ FontTag \/ TitleTag \/ EndWords \/ TableTag
           \/ CellBegin \/ CellTag \/ CellListTag \/ CellSkip \/ CellWords \/ CellWord
           \/ CellWordsEnd \/ CellEnd \/ TurnPage \/ UNCHANGED vars
  <2>1. /\ glyphBuffer' = glyphBuffer /\ first' = first /\ shown' = shown
        /\ delayedToken' = delayedToken
        BY <1>8 DEF vars, Fill, Skip, ListTag, StyleTag, FontTag, TitleTag, EndWords, TableTag,
                    CellBegin, CellTag, CellListTag, CellSkip, CellWords, CellWord, CellWordsEnd,
                    CellEnd, TurnPage, InTable
  <2> QED BY <1>4, <1>5, <2>1
<1>9. ASSUME NEW g \in AnyGlyph, Written(g), glyphBuffer' = Append(glyphBuffer, g),
             UNCHANGED <<first, shown, delayedToken>>
      PROVE  GlyphsWritten'
      BY <1>3, <1>4, <1>5, <1>9, WrittenAppend
<1>10. CASE AtEof
  <2>1. Eof \in AnyGlyph /\ Written(Eof)
        BY <1>1, DocType, PlainType, SimpleIsAny, PlainWritten DEF Eof, Kinds, Text
  <2> QED BY <1>9, <1>10, <2>1 DEF AtEof
<1>11. CASE BreakTag
  <2>1. Plain(Here, "break") \in AnyGlyph /\ Written(Plain(Here, "break"))
        BY <1>1, DocType, PlainType, SimpleIsAny, PlainWritten DEF Kinds, Text
  <2> QED BY <1>9, <1>11, <2>1 DEF BreakTag
<1>12. CASE ImgTag
  <2>1. Plain(Here, "img") \in AnyGlyph /\ Written(Plain(Here, "img"))
        BY <1>1, DocType, PlainType, SimpleIsAny, PlainWritten DEF Kinds, Text
  <2> QED BY <1>9, <1>12, <2>1 DEF ImgTag
<1>13. CASE TableEnd
  <2> DEFINE g == [Plain(Here, "table") EXCEPT !.cells = cell.glyphs]
  <2>1. Plain(Here, "table") \in AnyGlyph /\ Plain(Here, "table").kind = "table"
        BY <1>1, DocType, PlainType, SimpleIsAny, PlainWritten DEF Kinds, Text
  <2>2. g \in AnyGlyph /\ g.kind = "table"
        BY <1>1, <2>1 DEF AnyGlyph, TypeOK
  <2> HIDE DEF g
  <2>3. Written(g)
        BY <2>2 DEF Written, Text
  <2> QED BY <1>9, <1>13, <2>2, <2>3 DEF TableEnd, InTable, g
<1>14. CASE Word
  <2> DEFINE g == Glyph(Here, Shown(Token), glyphAttrib, Default)
  <2>1. CASE headerMode
        BY <1>4, <1>5, <1>14, <2>1 DEF Word, InTitle
  <2>2. CASE ~headerMode
    <3>1. /\ Shown(Token) \in Kinds /\ Here \in Nat /\ Here \in DOMAIN doc
          /\ ~AtEnd /\ pc = "words"
          BY <1>1, <1>14, DocType DEF Word, Kinds, Shown, Chars
    <3>2. g \in AnyGlyph
          BY <1>1, <3>1, WordType, SimpleIsAny, DefaultType DEF TypeOK
    <3>3. CellOf(Here) = {} /\ ~InHead(Here) /\ glyphAttrib = FontOutside(Here)
          BY <2>2, <3>1 DEF PlaceInv, CellKnown, FontKnown, TitleKnown
    <3>4. Written(g)
          BY <3>1, <3>3 DEF Written, Glyph
    <3> QED BY <1>9, <1>14, <2>2, <3>2, <3>4 DEF Word, InTitle
  <2> QED BY <2>1, <2>2
<1>15. CASE BeginWords
  <2>1. AllWritten(glyphBuffer \o delayedToken)
        BY <1>3, <1>4, <1>7, WrittenJoin
  <2> QED BY <1>4, <1>5, <1>6, <1>15, <2>1 DEF BeginWords
<1>16. CASE ItemTag
  <2>1. Labelling(Queued(Label))
        BY <1>1, <1>4, LabelsJoin DEF Labelling
  <2> QED BY <1>4, <1>5, <1>16, <2>1 DEF ItemTag
<1>17. CASE Take
  <2> DEFINE g == Head(glyphBuffer)
             set == [g EXCEPT !.line = LineOf(g).style]
  <2>1. g \in AnyGlyph /\ set \in AnyGlyph /\ Written(g) /\ AllWritten(Tail(glyphBuffer))
        BY <1>1, <1>3, <1>4, <1>17, HeadType, WrittenTail DEF Take
  <2>2. set.kind = g.kind /\ set.tok = g.tok /\ set.font = g.font
        BY <2>1 DEF AnyGlyph
  <2>3. Written(set)
        BY <2>1, <2>2 DEF Written
  <2> HIDE DEF set
  <2>4. AllWritten(Append(first, set)) /\ AllWritten(Append(shown, set))
        BY <1>3, <1>4, <2>1, <2>3, WrittenAppend
  <2>5. /\ first' \in {first, Append(first, set)} /\ shown' \in {shown, Append(shown, set)}
        /\ glyphBuffer' = Tail(glyphBuffer) /\ delayedToken' = delayedToken
        BY <1>17 DEF Take, set
  <2> QED BY <1>4, <1>5, <2>1, <2>4, <2>5
<1>18. ASSUME NEW p \in 1 .. MaxPages, RestoreDocState(p)
       PROVE  GlyphsWritten'
  <2>1. AllWritten(pages[p].buffer)
        BY <1>18 DEF RestoreDocState, PagesWritten, PageWritten
  <2> QED BY <1>4, <1>5, <1>6, <1>18, <2>1 DEF RestoreDocState, RestoredBuffer
<1> QED BY <1>8, <1>10, <1>11, <1>12, <1>13, <1>14, <1>15, <1>16, <1>17, <1>18 DEF Next, Parser

\* What lies before the end of the title was so before the last token of it.
LEMMA SilentBefore ==
  ASSUME TypeOK, ~AtEnd, Read, doc' = doc, Blank(Here)' \/ InHead(Here)'
  PROVE  \/ Blank(Here) /\ Token \in {"x", "b", "nl", "title"}
         \/ InHead(Here) /\ Token \in Chars \cup {"x"}
BY ReadOn, HeadShape, DocType

LEMMA QuietStep ==
  ASSUME TypeInv, PlaceInv, Quiet, [Next]_vars
  PROVE  Quiet'
<1> USE DEF modes, attribs, words, reader
<1>1. doc' = doc /\ TypeOK /\ glyphBuffer \in Glyphs
      BY DocStays DEF TypeInv, TypeOK
<1> DEFINE Eofs(s) == \A i \in DOMAIN s : s[i].kind = "eof"
<1>2. ASSUME back'.n = 0, Blank(Here)' \/ InHead(Here)', back.n = 0 => Blank(Here) \/ InHead(Here)
      PROVE  /\ back.n = 0 => pc \in {"ask", "tags", "words"} /\ delayedToken = <<>>
                              /\ Eofs(glyphBuffer)
             /\ back.n = 0 /\ Blank(Here) =>
                  ~resumeProcWord /\ (pc = "words" => ~AtEnd /\ Token \in {"c", "e"})
      BY <1>2 DEF Quiet
<1>3. CASE off' = off /\ UNCHANGED <<glyphBuffer, delayedToken, words, back>>
           /\ (pc' = pc \/ (pc \in {"ask", "tags", "words"} /\ pc' \in {"ask", "tags"}))
  <2>1. Here' = Here /\ (AtEnd' <=> AtEnd) /\ Token' = Token
        BY <1>1, <1>3 DEF Here, AtEnd, Token
  <2>2. (Blank(Here)' <=> Blank(Here)) /\ (InHead(Here)' <=> InHead(Here))
        BY <1>1, <2>1, PlacesStay
  <2> QED BY <1>3, <2>1, <2>2 DEF Quiet
<1>4. CASE ~AtEnd /\ Read /\ back' = back
           /\ (pc \notin {"ask", "tags", "words"} \/ Token \notin Chars \cup {"x", "title"})
  <2>1. Blank(Here)' \/ InHead(Here)' => (Blank(Here) \/ InHead(Here)) /\ Token \in Chars \cup {"x", "title"}
        BY <1>1, <1>4, SilentBefore DEF Text, Chars
  <2>2. back'.n = back.n
        BY <1>4
  <2> QED BY <1>4, <2>1, <2>2 DEF Quiet
<1>5. CASE Fill
  <2>1. Here' = Here /\ (Blank(Here)' <=> Blank(Here)) /\ (InHead(Here)' <=> InHead(Here))
    <3>1. Here' = Here
          BY <1>5 DEF Here, Fill
    <3> QED BY <1>1, <3>1, PlacesStay
  <2> QED BY <1>5, <2>1 DEF Quiet, Fill
<1>6. CASE AtEof
  <2>1. Here' = Here /\ (Blank(Here)' <=> Blank(Here)) /\ (InHead(Here)' <=> InHead(Here))
    <3>1. Here' = Here
          BY <1>6 DEF Here, AtEof
    <3> QED BY <1>1, <3>1, PlacesStay
  <2>2. Eof.kind = "eof" /\ Eof \in AnyGlyph
        BY <1>1, DocType, PlainType, SimpleIsAny DEF Eof, Plain, Glyph, Kinds
  <2>3. /\ \A j \in 1 .. Len(glyphBuffer) : Append(glyphBuffer, Eof)[j] = glyphBuffer[j]
        /\ Append(glyphBuffer, Eof)[Len(glyphBuffer) + 1] = Eof
        /\ DOMAIN Append(glyphBuffer, Eof) = (1 .. Len(glyphBuffer)) \cup {Len(glyphBuffer) + 1}
        /\ DOMAIN glyphBuffer = 1 .. Len(glyphBuffer)
        BY <1>1, <2>2, AppendProperties, LenProperties DEF Glyphs
  <2>4. Eofs(glyphBuffer) => Eofs(Append(glyphBuffer, Eof))
        BY <2>2, <2>3
  <2> QED BY <1>6, <2>1, <2>4 DEF Quiet, AtEof
<1>7. CASE Skip
  <2>1. ~AtEnd /\ Read /\ pc' = pc /\ pc = "tags"
        BY <1>7 DEF Skip, Tag
  <2>2. Blank(Here)' => Blank(Here)
        BY <1>1, <2>1, ReadOn
  <2>3. Blank(Here)' \/ InHead(Here)' => Blank(Here) \/ InHead(Here)
        BY <1>1, <2>1, SilentBefore
  <2> QED BY <1>7, <2>1, <2>2, <2>3 DEF Quiet, Skip
<1>8. CASE TitleTag
  <2>1. ~AtEnd /\ Read /\ pc' = pc /\ pc = "tags" /\ Token \in {"title", "/title"}
        BY <1>8 DEF TitleTag, Tag
  <2>2. ~Blank(Here)'
        BY <1>1, <2>1, ReadOn
  <2>3. Blank(Here)' \/ InHead(Here)' => Blank(Here) \/ InHead(Here)
        BY <1>1, <2>1, SilentBefore
  <2> QED BY <1>8, <2>1, <2>2, <2>3 DEF Quiet, TitleTag
<1>9. CASE Word
  <2>1. ~AtEnd /\ Read /\ pc = "words" /\ pc' \in {"ask", "words"} /\ Token \in Chars
        BY <1>9 DEF Word
  <2>2. Blank(Here)' \/ InHead(Here)' =>
          \/ Blank(Here) /\ Token \in {"b", "nl"}
          \/ InHead(Here) /\ ~Blank(Here)'
    <3>1. Blank(Here)' => Blank(Here) /\ Token \in {"b", "nl"}
          BY <1>1, <2>1, ReadOn DEF Text, Chars
    <3>2. Blank(Here)' \/ InHead(Here)' => (Blank(Here) /\ Token \in {"b", "nl"}) \/ InHead(Here)
          BY <1>1, <2>1, SilentBefore DEF Text, Chars
    <3> QED BY <3>1, <3>2
  <2>3. InHead(Here) => headerMode
        BY DEF PlaceInv, TitleKnown
  <2>4. back' = back /\ delayedToken' = delayedToken
        /\ (headerMode => glyphBuffer' = glyphBuffer)
        BY <1>9 DEF Word, InTitle
  <2>5. back.n = 0 => ~(Blank(Here) /\ Token \in {"b", "nl"})
        BY <2>1 DEF Quiet
  <2> QED BY <2>1, <2>2, <2>3, <2>4, <2>5 DEF Quiet
<1>10. CASE BeginWords
  <2>1. Here' = Here /\ (AtEnd' <=> AtEnd) /\ Token' = Token
        BY <1>1, <1>10 DEF Here, AtEnd, Token, BeginWords
  <2>2. (Blank(Here)' <=> Blank(Here)) /\ (InHead(Here)' <=> InHead(Here))
        BY <1>1, <2>1, PlacesStay
  <2>3. delayedToken = <<>> => glyphBuffer' = glyphBuffer
        BY <1>1, <1>10, ConcatEmptySeq DEF BeginWords, Glyphs
  <2> QED BY <1>10, <2>1, <2>2, <2>3 DEF Quiet, BeginWords
<1>11. CASE Take
  <2>1. Here' = Here /\ (Blank(Here)' <=> Blank(Here)) /\ (InHead(Here)' <=> InHead(Here))
    <3>1. Here' = Here
          BY <1>11 DEF Here, Take
    <3> QED BY <1>1, <3>1, PlacesStay
  <2>2. glyphBuffer' = Tail(glyphBuffer) /\ glyphBuffer # <<>> /\ pc = "ask" /\ pc' = "ask"
        /\ UNCHANGED <<delayedToken, words, back>>
        BY <1>11 DEF Take
  <2>3. \A j \in DOMAIN Tail(glyphBuffer) :
          Tail(glyphBuffer)[j] = glyphBuffer[j + 1] /\ j + 1 \in DOMAIN glyphBuffer
        BY <1>1, <2>2, HeadTailProperties, LenProperties, EmptySeq DEF Glyphs
  <2>4. Eofs(glyphBuffer) => Eofs(Tail(glyphBuffer))
        BY <2>3
  <2> QED BY <2>1, <2>2, <2>4 DEF Quiet
<1>12. CASE CellWords \/ CellWordsEnd
  <2>1. Here' = Here /\ back' = back /\ pc \notin {"ask", "tags", "words"}
        BY <1>12 DEF Here, CellWords, CellWordsEnd
  <2>2. (Blank(Here)' <=> Blank(Here)) /\ (InHead(Here)' <=> InHead(Here))
        BY <1>1, <2>1, PlacesStay
  <2> QED BY <2>1, <2>2 DEF Quiet
<1>13. ASSUME NEW p \in 1 .. MaxPages, RestoreDocState(p)
       PROVE  Quiet'
  <2>1. back'.n = back.n + 1 /\ back.n \in Nat
        BY <1>1, <1>13, MarkupAssumption DEF MarkupAssumption, RestoreDocState, TypeOK
  <2> QED BY <2>1 DEF Quiet
<1>14. CASE EndWords \/ TurnPage \/ UNCHANGED vars
      BY <1>3, <1>14 DEF EndWords, TurnPage, vars
<1>15. CASE BreakTag \/ ImgTag \/ ItemTag \/ ListTag \/ StyleTag \/ FontTag \/ TableTag
      BY <1>4, <1>15 DEF BreakTag, ImgTag, ItemTag, ListTag, StyleTag, FontTag, TableTag, Tag,
                         Lists, Text, Chars
<1>16. CASE CellBegin \/ CellTag \/ CellListTag \/ CellSkip \/ CellWord \/ CellEnd \/ TableEnd
      BY <1>4, <1>16 DEF CellBegin, CellTag, CellListTag, CellSkip, CellWord, CellEnd, TableEnd,
                         InTable
<1> QED BY <1>5, <1>6, <1>7, <1>8, <1>9, <1>10, <1>11, <1>12, <1>13, <1>14, <1>15, <1>16
        DEF Next, Parser

\* A page begins outside cells and titles, with the font of its place.
LEMMA PagesStep ==
  ASSUME TypeInv, PlaceInv, GlyphsWritten, Quiet, PagesWritten, [Next]_vars
  PROVE  PagesWritten'
<1> USE DEF modes, attribs, words, reader
<1>1. doc' = doc /\ TypeOK /\ pages \in Seq(Saved)
      BY DocStays DEF TypeInv, TypeOK
<1>2. ASSUME pages' = pages
      PROVE  PagesWritten'
      BY <1>1, <1>2, PlacesStay DEF PagesWritten
<1>3. CASE TurnPage
  <2> DEFINE s == ShadowDocState(glyphBuffer, Len(first))
             n == Len(pages) + 1
  <2>1. /\ s.buffer = glyphBuffer /\ s.offset = off /\ s.glyphAttrib = glyphAttrib
        BY DEF ShadowDocState
  <2>2. pages' = Append(pages, s) /\ pc = "ask" /\ back.n = 0 /\ glyphBuffer # <<>>
        /\ Head(glyphBuffer).kind # "eof"
        BY <1>3 DEF TurnPage
  <2> HIDE DEF s
  <2>3. /\ \A p \in DOMAIN pages : pages'[p] = pages[p]
        /\ pages'[n] = s /\ DOMAIN pages' = DOMAIN pages \cup {n}
    <3>1. s \in Saved
      <4>1. Len(first) \in Nat
            BY <1>1, LenProperties DEF TypeOK, Glyphs
      <4> QED BY <1>1, <4>1 DEF s, ShadowDocState, Saved, Hidden, TypeOK
    <3> QED BY <1>1, <2>2, <3>1, AppendProperties, LenProperties
  <2>4. ~InHead(Here)
    <3>1. 1 \in DOMAIN glyphBuffer /\ Head(glyphBuffer) = glyphBuffer[1]
          BY <1>1, <2>2, HeadTailProperties, LenProperties, EmptySeq DEF TypeOK, Glyphs
    <3> QED BY <2>2, <3>1 DEF Quiet
  <2>5. Here # Len(doc) + 1 => CellOf(Here) = {}
    <3>1. Here # Len(doc) + 1 => ~AtEnd
          BY <1>1, DocType DEF Here, AtEnd
    <3> QED BY <2>2, <3>1 DEF PlaceInv, CellKnown
  <2>6. PageWritten(s)
    <3>1. s.offset + 1 = Here
          BY <2>1 DEF Here
    <3>2. AllWritten(glyphBuffer) /\ glyphAttrib = FontOutside(Here)
          BY DEF GlyphsWritten, PlaceInv, FontKnown
    <3> QED BY <2>1, <2>4, <2>5, <3>1, <3>2 DEF PageWritten
  <2>7. \A p \in DOMAIN pages' : PageWritten(pages'[p])
        BY <2>3, <2>6 DEF PagesWritten
  <2> QED BY <1>1, <2>7, PlacesStay DEF PagesWritten
<1>4. ~TurnPage => pages' = pages
      BY DEF Next, Parser, vars, Fill, AtEof, Skip, BreakTag, ImgTag,
             ItemTag, ListTag, StyleTag, FontTag, TitleTag, BeginWords, Word, EndWords, TableTag,
             CellBegin, CellTag, CellListTag, CellSkip, CellWords, CellWord, CellWordsEnd, CellEnd,
             TableEnd, InTable, Take, RestoreDocState
<1> QED BY <1>2, <1>3, <1>4

LEMMA FontStart == Init => FontInv
<1> SUFFICES ASSUME Init PROVE FontInv
    OBVIOUS
<1>1. off = 0 /\ Here = 1 /\ 1 .. Here - 1 = {}
      BY DEF Init, Here
<1>2. CellOf(Here) = {} /\ ~InHead(Here)
      BY <1>1 DEF CellOf, InHead
<1>3. FontOutside(Here) = 0
      BY <1>1 DEF FontOutside, LastOutside, Outside
<1>4. AllWritten(<<>>) /\ DOMAIN <<>> = {}
      BY DEF AllWritten
<1>5. CellKnown /\ FontKnown /\ TitleKnown
      BY <1>2, <1>3 DEF CellKnown, FontKnown, TitleKnown, Init
<1>6. GlyphsWritten /\ Quiet
      BY <1>4 DEF GlyphsWritten, Quiet, Init
<1>7. PagesWritten
  <2>1. /\ DOMAIN pages = {1} /\ pages[1].offset + 1 = Here /\ pages[1].buffer = <<>>
        /\ pages[1].glyphAttrib = 0
        BY <1>1 DEF Init, ShadowDocState
  <2> QED BY <1>2, <1>3, <1>4, <2>1 DEF PagesWritten, PageWritten
<1> QED BY <1>5, <1>6, <1>7 DEF FontInv

LEMMA FontStep ==
  ASSUME TypeInv, FontInv, [Next]_vars
  PROVE  FontInv'
<1>1. PlaceInv /\ GlyphsWritten /\ Quiet /\ PagesWritten /\ TypeOK
      BY DEF FontInv, PlaceInv, TypeInv
<1>2. PlaceInv' /\ GlyphsWritten' /\ Quiet' /\ PagesWritten'
      BY <1>1, PlaceStep, GlyphsStep, QuietStep, PagesStep
<1> QED BY <1>2 DEF FontInv, PlaceInv

LEMMA FontAlways == Spec => []FontInv
<1>1. Init => FontInv
      BY FontStart
<1>2. TypeInv /\ TypeInv' /\ FontInv /\ [Next]_vars => FontInv'
      BY FontStep
<1> QED BY <1>1, <1>2, TypeAlways, PTL DEF Spec

\* Outside cells the last tag is the last tag outside cells.
LEMMA TagsOutside ==
  ASSUME NEW k, CellOf(k) = {}
  PROVE  /\ \A tags : LastTag(k, tags) = LastOutside(k, tags)
         /\ FontAt(k) = FontOutside(k) /\ StyleAt(k) = StyleOutside(k)
<1>1. \A tags : LastTag(k, tags) = LastOutside(k, tags)
      BY DEF LastTag, LastOutside, Outside
<1>2. FontAt(k) = FontOutside(k)
      BY <1>1 DEF FontAt, FontOutside, FontTags
<1>3. StyleAt(k) = StyleOutside(k)
      BY DEF StyleAt, StyleOutside, Outside, Unlisted, Given, StyleTags
<1> QED BY <1>1, <1>2, <1>3

\* A token behind the title is not in it.
LEMMA TitleOver ==
  ASSUME TypeOK, NEW k \in Nat, k <= Len(doc) + 1, ~InHead(k)
  PROVE  LastOutside(k, TitleTags) # "title"
<1> DEFINE S == Outside(k, TitleTags)
           t == LastIn(S)
<1>1. SUFFICES ASSUME S # {}, doc[t] = "title" PROVE FALSE
      BY DEF LastOutside
<1>2. CASE k = 0
  <2>1. 1 .. k - 1 = {}
        BY <1>2
  <2> QED BY <1>1, <2>1 DEF Outside
<1>3. CASE k # 0
  <2>1. k - 1 \in Nat /\ S \in SUBSET (1 .. k - 1)
        BY <1>3 DEF Outside
  <2>2. t \in S /\ \A j \in S : j <= t
        BY <1>1, <2>1, LastIs
  <2> HIDE DEF t
  <2>3. t \in 1 .. k - 1
        BY <2>1, <2>2
  <2>4. PICK i \in t .. k - 1 : doc[i] = "/title"
        BY <1>1, <2>3 DEF InHead
  <2>5. i \in 1 .. k - 1 /\ i \in DOMAIN doc
        BY <2>3, <2>4, DocType
  <2>6. CellOf(i) = {}
        BY <2>4, <2>5, NoCellInHead DEF TitleTags
  <2>7. i \in S
        BY <2>4, <2>5, <2>6 DEF Outside, TitleTags
  <2>8. i = t
        BY <2>2, <2>3, <2>4, <2>7
  <2> QED BY <1>1, <2>4, <2>8
<1> QED BY <1>2, <1>3

\* Text has the font its place in the document gives it, and a title is never
\* text, in every reading and on every page shown again.
THEOREM TextHasItsFont == Spec => []FontAsWritten
<1>1. TypeInv /\ FontInv => FontAsWritten
  <2> SUFFICES ASSUME TypeInv, FontInv, LatestIsText(Reading)
               PROVE  LET k == Latest(Reading).tok
                      IN  /\ Latest(Reading).font = FontAt(k)
                          /\ LastTag(k, {"title", "/title"}) # "title"
      BY DEF FontAsWritten
  <2>1. TypeOK /\ Reading \in Glyphs /\ AllWritten(Reading) /\ Reading # <<>>
        BY DEF TypeInv, TypeOK, Reading, FontInv, GlyphsWritten, LatestIsText
  <2> DEFINE g == Latest(Reading)
  <2>2. g = Reading[Len(Reading)] /\ Len(Reading) \in DOMAIN Reading
        BY <2>1, LenProperties, EmptySeq DEF Latest, Glyphs
  <2>3. g \in AnyGlyph /\ g.kind \in Text
        BY <2>1, <2>2, ElementOfSeq, LenProperties DEF Glyphs, LatestIsText, IsText
  <2>4. Written(g)
        BY <2>1, <2>2 DEF AllWritten
  <2> HIDE DEF g
  <2>5. /\ g.tok \in DOMAIN doc /\ CellOf(g.tok) = {} /\ ~InHead(g.tok)
        /\ g.font = FontOutside(g.tok)
        BY <2>3, <2>4 DEF Written
  <2>6. g.tok \in Nat /\ g.tok <= Len(doc) + 1
        BY <2>1, <2>5, DocType
  <2>7. LastOutside(g.tok, TitleTags) # "title"
        BY <2>1, <2>5, <2>6, TitleOver
  <2> QED BY <2>5, <2>7, TagsOutside DEF TitleTags, g
<1> QED BY <1>1, TypeAlways, FontAlways, PTL

-----------------------------------------------------------------------------
(* The style of lines, in a first reading.                                  *)

ListKnown == listMode = ListModeOf(ListAt(Here))
LineKnown ==
  /\ lineAttrib.indent = StyleOutside(Here).indent
  /\ ~InHead(Here) => lineAttrib = StyleOutside(Here)

HasKind(s, kinds) == \E i \in DOMAIN s : s[i].kind \in kinds

\* A run of words is being read, or its text waits in the buffer.
Running == pc = "words" \/ resumeProcWord \/ HasKind(glyphBuffer, Text)

\* The run of words that was read last ends with token n: text of it is in a
\* style, and a break that is not of it is a tag's.
OfRun(k, n) == k \in 0 .. n /\ SameRun(k, n)
Toned(s, style, n) ==
  \A i \in DOMAIN s : s[i].kind \in Text => StyleOutside(s[i].tok) = style /\ OfRun(s[i].tok, n)
TagBreak(s, n) == \E i \in DOMAIN s : s[i].kind = "break" /\ ~SameRun(s[i].tok, n)

\* Text is made at the end of a batch, of one run and in the style in force,
\* and the break of a tag ends a batch.
BatchShape ==
  /\ pc # "ask" => ~resumeProcWord /\ ~TagBreak(glyphBuffer, off)
  /\ pc \notin {"ask", "words"} => ~HasKind(glyphBuffer, Text) /\ ~HasKind(glyphBuffer, {"break"})
  /\ TagBreak(glyphBuffer, off) => ~HasKind(glyphBuffer, Text) /\ ~resumeProcWord
  /\ Toned(glyphBuffer, lineAttrib, off)
  /\ Running => curLine.style \in {lineAttrib, Default}

\* Since the break j only labels were set, on the same page and line.
Since(j) ==
  /\ j \in DOMAIN first /\ first[j].kind = "break" /\ Len(first) - j < LineLen
  /\ \A m \in j + 1 .. Len(first) : first[m].kind \in Labels
  /\ \A p \in DOMAIN pages : pages[p].from \notin j .. Len(first)
LineBegun ==
  \A j \in DOMAIN first : Since(j) =>
    /\ curLine.n = Len(first) - j
    /\ Running /\ ~SameRun(first[j].tok, off) => curLine.style = lineAttrib

StyleInv ==
  StyleAsWritten /\ (back.n = 0 => ListKnown /\ LineKnown /\ BatchShape /\ LineBegun)

LEMMA ListNext ==
  ASSUME NEW k \in Nat \ {0}
  PROVE  /\ ListAt(k) \in Lists \cup {"/list"}
         /\ ListAt(k + 1) = IF doc[k] \in Lists \cup {"/list"} THEN doc[k] ELSE ListAt(k)
<1> DEFINE L == Lists \cup {"/list"}
           S == {j \in 1 .. k - 1 : doc[j] \in L}
           T == {j \in 1 .. (k + 1) - 1 : doc[j] \in L}
<1>1. S \in SUBSET (1 .. k - 1) /\ k - 1 \in Nat
      OBVIOUS
<1>2. T = S \cup (IF doc[k] \in L THEN {k} ELSE {})
      BY PlacesBefore
<1>3. ListAt(k) = IF S = {} THEN "/list" ELSE doc[LastIn(S)]
      BY DEF ListAt
<1>4. ListAt(k + 1) = IF T = {} THEN "/list" ELSE doc[LastIn(T)]
      BY DEF ListAt
<1>5. S # {} => doc[LastIn(S)] \in L
  <2>1. S # {} => LastIn(S) \in S
        BY <1>1, LastIs
  <2> QED BY <2>1
<1>6. LastIn(S \cup {k}) = k
      BY <1>1, LastJoined
<1> HIDE DEF S, T
<1>7. CASE doc[k] \in L
  <2>1. T = S \cup {k}
        BY <1>2, <1>7
  <2> QED BY <1>3, <1>4, <1>5, <1>6, <1>7, <2>1
<1>8. CASE doc[k] \notin L
  <2>1. T = S
        BY <1>2, <1>8
  <2> QED BY <1>3, <1>4, <1>5, <1>8, <2>1
<1> QED BY <1>7, <1>8

LEMMA StyleNext ==
  ASSUME NEW k \in Nat \ {0}
  PROVE  LET v == IF doc[k] = "ind" THEN 1 ELSE 0
         IN  StyleOutside(k + 1) =
               IF doc[k] \in StyleTags /\ CellOf(k) = {}
               THEN Style(IF ListAt(k) = "/list" THEN v ELSE StyleOutside(k).indent, v)
               ELSE StyleOutside(k)
<1> DEFINE S == Outside(k, StyleTags)
           v == IF doc[k] = "ind" THEN 1 ELSE 0
<1>1. S \in SUBSET (1 .. k - 1) /\ Unlisted(k) \in SUBSET (1 .. k - 1)
      BY OutsideNext DEF Unlisted
<1>2. CASE doc[k] \in StyleTags /\ CellOf(k) = {}
  <2>1. Outside(k + 1, StyleTags) = S \cup {k}
        BY <1>2, OutsideNext
  <2>2. Unlisted(k + 1) = Unlisted(k) \cup (IF ListAt(k) = "/list" THEN {k} ELSE {})
        BY <2>1 DEF Unlisted
  <2>3. LastIn(S \cup {k}) = k /\ LastIn(Unlisted(k) \cup {k}) = k
        BY <1>1, LastJoined
  <2>4. Given(Outside(k + 1, StyleTags)) = v
    <3>1. LastIn(Outside(k + 1, StyleTags)) = k
          BY <2>1, <2>3, Zenon
    <3> QED BY <2>1, <3>1 DEF Given
  <2>5. CASE ListAt(k) = "/list"
    <3>1. Unlisted(k + 1) = Unlisted(k) \cup {k}
          BY <2>2, <2>5
    <3>2. LastIn(Unlisted(k + 1)) = k
          BY <2>3, <3>1, Zenon
    <3>3. Given(Unlisted(k + 1)) = v
          BY <3>1, <3>2 DEF Given
    <3> QED BY <1>2, <2>4, <2>5, <3>3 DEF StyleOutside
  <2>6. CASE ListAt(k) # "/list"
    <3>1. Unlisted(k + 1) = Unlisted(k)
          BY <2>2, <2>6
    <3>2. StyleOutside(k).indent = Given(Unlisted(k))
          BY DEF StyleOutside, Style
    <3> QED BY <1>2, <2>4, <2>6, <3>1, <3>2 DEF StyleOutside
  <2> QED BY <2>5, <2>6
<1>3. CASE ~(doc[k] \in StyleTags /\ CellOf(k) = {})
  <2>1. Outside(k + 1, StyleTags) = S
        BY <1>3, OutsideNext
  <2> QED BY <1>3, <2>1 DEF StyleOutside, Unlisted
<1> QED BY <1>2, <1>3

LEMMA StylesStay ==
  ASSUME doc' = doc
  PROVE  /\ \A k : ListAt(k)' = ListAt(k)
         /\ \A k : StyleOutside(k)' = StyleOutside(k)
         /\ \A k : StyleAt(k)' = StyleAt(k)
         /\ \A a, b : SameRun(a, b)' <=> SameRun(a, b)
<1>1. \A k : CellOf(k)' = CellOf(k)
      BY DEF CellOf
<1>2. \A k : ListAt(k)' = ListAt(k)
      BY DEF ListAt
<1>3. \A k, tags : Outside(k, tags)' = Outside(k, tags)
      BY <1>1 DEF Outside
<1>4. \A k : StyleOutside(k)' = StyleOutside(k)
      BY <1>2, <1>3 DEF StyleOutside, Unlisted, Given
<1>5. \A k : StyleAt(k)' = StyleAt(k)
      BY <1>1, <1>2 DEF StyleAt
<1>6. \A a, b : SameRun(a, b)' <=> SameRun(a, b)
      BY DEF SameRun
<1> QED BY <1>2, <1>4, <1>5, <1>6

LEMMA StyleReadOn ==
  ASSUME TypeOK, ~AtEnd, Read, doc' = doc
  PROVE  LET v == IF Token = "ind" THEN 1 ELSE 0
         IN  /\ ListAt(Here) \in Lists \cup {"/list"}
             /\ ListAt(Here)' = IF Token \in Lists \cup {"/list"} THEN Token ELSE ListAt(Here)
             /\ StyleOutside(Here)' =
                  IF Token \in StyleTags /\ CellOf(Here) = {}
                  THEN Style(IF ListAt(Here) = "/list" THEN v ELSE StyleOutside(Here).indent, v)
                  ELSE StyleOutside(Here)
<1>1. Here \in Nat \ {0} /\ Token = doc[Here] /\ Here' = Here + 1
      BY DocType DEF Here, Token, Read
<1> QED BY <1>1, StylesStay, ListNext, StyleNext

LEMMA ListStep ==
  ASSUME TypeOK, ListKnown, [Next]_vars, back'.n = 0
  PROVE  ListKnown' /\ back.n = 0
<1> USE DEF modes, attribs, words, reader
<1>1. doc' = doc
      BY DocStays
<1>2. ASSUME NEW p \in 1 .. MaxPages, RestoreDocState(p)
      PROVE  FALSE
  <2>1. back'.n = back.n + 1 /\ back.n \in Nat
        BY <1>2, MarkupAssumption DEF MarkupAssumption, RestoreDocState, TypeOK
  <2> QED BY <2>1
<1>3. CASE Fill \/ AtEof \/ BeginWords \/ EndWords \/ CellWords \/ CellWordsEnd \/ Take
           \/ TurnPage \/ UNCHANGED vars
  <2>1. Here' = Here /\ listMode' = listMode /\ back' = back
        BY <1>3 DEF Fill, AtEof, BeginWords, EndWords, CellWords, CellWordsEnd, Take, TurnPage,
                    vars, Here
  <2> QED BY <1>1, <2>1, StylesStay DEF ListKnown
<1>4. CASE ListTag \/ CellListTag
  <2>1. /\ ~AtEnd /\ Read /\ back' = back /\ listMode' = ListModeOf(Token)
        /\ Token \in Lists \cup {"/list"}
        BY <1>4 DEF ListTag, CellListTag, Tag, InTable
  <2> QED BY <1>1, <2>1, StyleReadOn DEF ListKnown
<1>5. CASE Skip \/ BreakTag \/ ImgTag \/ ItemTag \/ StyleTag \/ FontTag \/ TitleTag \/ Word
           \/ TableTag \/ CellBegin \/ CellTag \/ CellSkip \/ CellWord \/ CellEnd \/ TableEnd
  <2>1. /\ ~AtEnd /\ Read /\ back' = back /\ listMode' = listMode
        /\ Token \notin Lists \cup {"/list"}
        BY <1>5 DEF Skip, BreakTag, ImgTag, ItemTag, StyleTag, FontTag, TitleTag, Word, TableTag,
                    CellBegin, CellTag, CellSkip, CellWord, CellEnd, TableEnd, Tag, InTable,
                    Lists, Text, Chars
  <2> QED BY <1>1, <2>1, StyleReadOn DEF ListKnown
<1> QED BY <1>2, <1>3, <1>4, <1>5 DEF Next, Parser

\* The style in force is that of the token at hand.
LEMMA LineStep ==
  ASSUME TypeOK, PlaceInv, ListKnown, LineKnown, [Next]_vars, back'.n = 0
  PROVE  LineKnown'
<1> USE DEF modes, attribs, words, reader
<1>1. doc' = doc
      BY DocStays
<1>2. ASSUME NEW p \in 1 .. MaxPages, RestoreDocState(p)
      PROVE  FALSE
  <2>1. back'.n = back.n + 1 /\ back.n \in Nat
        BY <1>2, MarkupAssumption DEF MarkupAssumption, RestoreDocState, TypeOK
  <2> QED BY <2>1
<1>3. CASE Fill \/ AtEof \/ BeginWords \/ EndWords \/ CellWords \/ CellWordsEnd \/ Take
           \/ TurnPage \/ UNCHANGED vars
  <2>1. Here' = Here /\ lineAttrib' = lineAttrib
        BY <1>3 DEF Fill, AtEof, BeginWords, EndWords, CellWords, CellWordsEnd, Take, TurnPage,
                    vars, Here
  <2> QED BY <1>1, <2>1, StylesStay, PlacesStay DEF LineKnown
<1>4. CASE StyleTag
  <2> DEFINE v == IF Token = "ind" THEN 1 ELSE 0
  <2>1. /\ ~AtEnd /\ Read /\ pc = "tags" /\ Token \in {"ind", "noi"}
        /\ lineAttrib' = Styled(Style(v, v))
        BY <1>4 DEF StyleTag, Tag, Default
  <2>2. CellOf(Here) = {}
        BY <2>1 DEF PlaceInv, CellKnown
  <2>3. listMode = "LM_NONE" <=> ListAt(Here) = "/list"
        BY <1>1, <2>1, StyleReadOn DEF ListKnown, ListModeOf, Lists
  <2>4. StyleOutside(Here)' =
          Style(IF ListAt(Here) = "/list" THEN v ELSE StyleOutside(Here).indent, v)
        BY <1>1, <2>1, <2>2, StyleReadOn DEF StyleTags
  <2>5. lineAttrib.indent = StyleOutside(Here).indent
        BY DEF LineKnown
  <2>6. lineAttrib' = Style(IF ListAt(Here) = "/list" THEN v ELSE StyleOutside(Here).indent, v)
        BY <2>1, <2>3, <2>5 DEF Styled, Style
  <2> QED BY <2>4, <2>6 DEF LineKnown
<1>5. CASE TitleTag
  <2>1. /\ ~AtEnd /\ Read /\ pc = "tags" /\ Token \in {"title", "/title"}
        /\ lineAttrib' = IF Token = "/title" THEN Default ELSE [lineAttrib EXCEPT !.align = 1]
        BY <1>5 DEF TitleTag, Tag
  <2>2. CellOf(Here) = {}
        BY <2>1 DEF PlaceInv, CellKnown
  <2>3. CASE Token = "title"
    <3>1. StyleOutside(Here)' = StyleOutside(Here) /\ InHead(Here)'
          BY <1>1, <2>1, <2>3, StyleReadOn, ReadOn DEF StyleTags
    <3>2. lineAttrib'.indent = lineAttrib.indent
          BY <2>1, <2>3 DEF TypeOK, Styles
    <3> QED BY <3>1, <3>2 DEF LineKnown
  <2>4. CASE Token = "/title"
    <3>1. \A j \in 1 .. Here - 1 : doc[j] \notin Lists \cup {"/list"}
          BY <2>1, <2>4, HeadShape, DocType DEF TitleTags, Lists, Text, Chars
    <3>2. ListAt(Here) = "/list"
          BY <3>1 DEF ListAt
    <3>3. StyleOutside(Here)' = Style(0, 0)
          BY <1>1, <2>1, <2>2, <2>4, <3>2, StyleReadOn DEF StyleTags
    <3> QED BY <2>1, <2>4, <3>3 DEF LineKnown, Default
  <2> QED BY <2>1, <2>3, <2>4
<1>6. CASE Skip \/ BreakTag \/ ImgTag \/ ItemTag \/ ListTag \/ FontTag \/ Word \/ TableTag
           \/ CellBegin \/ CellTag \/ CellListTag \/ CellSkip \/ CellWord \/ CellEnd \/ TableEnd
  <2>1. /\ ~AtEnd /\ Read /\ lineAttrib' = lineAttrib
        /\ Token \in StyleTags \cup TitleTags => pc \in Cellular
        BY <1>6 DEF Skip, BreakTag, ImgTag, ItemTag, ListTag, FontTag, Word, TableTag, CellBegin,
                    CellTag, CellListTag, CellSkip, CellWord, CellEnd, TableEnd, Tag, InTable,
                    Lists, Text, Chars, StyleTags, TitleTags, Cellular
  <2>2. Token \in StyleTags \cup TitleTags => CellOf(Here) # {}
        BY <2>1 DEF PlaceInv, CellKnown, Cellular
  <2>3. Token \notin TitleTags
        BY <2>1, <2>2, NoCellInHead, DocType
  <2>4. StyleOutside(Here)' = StyleOutside(Here) /\ (InHead(Here)' <=> InHead(Here))
        BY <1>1, <2>1, <2>2, <2>3, StyleReadOn, ReadOn DEF TitleTags
  <2> QED BY <2>1, <2>4 DEF LineKnown
<1> QED BY <1>2, <1>3, <1>4, <1>5, <1>6 DEF Next, Parser

\* What is in a sequence of glyphs that grows or loses its head.
LEMMA KindsAppend ==
  ASSUME NEW s \in Glyphs, NEW g \in AnyGlyph
  PROVE  /\ \A kinds : HasKind(Append(s, g), kinds) <=> (HasKind(s, kinds) \/ g.kind \in kinds)
         /\ \A style, n : Toned(Append(s, g), style, n) <=>
              /\ Toned(s, style, n)
              /\ g.kind \in Text => StyleOutside(g.tok) = style /\ OfRun(g.tok, n)
         /\ \A n : TagBreak(Append(s, g), n) <=>
              (TagBreak(s, n) \/ (g.kind = "break" /\ ~SameRun(g.tok, n)))
<1>1. /\ \A i \in 1 .. Len(s) : Append(s, g)[i] = s[i]
      /\ Append(s, g)[Len(s) + 1] = g /\ Len(s) \in Nat
      /\ DOMAIN Append(s, g) = (1 .. Len(s)) \cup {Len(s) + 1} /\ DOMAIN s = 1 .. Len(s)
      BY AppendProperties, LenProperties DEF Glyphs
<1> QED BY <1>1 DEF HasKind, Toned, TagBreak

LEMMA KindsJoin ==
  ASSUME NEW s \in Glyphs, NEW t \in Glyphs
  PROVE  \A kinds : HasKind(s \o t, kinds) <=> (HasKind(s, kinds) \/ HasKind(t, kinds))
<1>1. /\ s \in Seq(AnyGlyph) /\ t \in Seq(AnyGlyph)
      /\ Len(s) \in Nat /\ Len(t) \in Nat /\ DOMAIN s = 1 .. Len(s) /\ DOMAIN t = 1 .. Len(t)
      BY LenProperties DEF Glyphs
<1>2. /\ DOMAIN (s \o t) = 1 .. Len(s) + Len(t)
      /\ \A i \in 1 .. Len(s) + Len(t) :
           (s \o t)[i] = IF i <= Len(s) THEN s[i] ELSE t[i - Len(s)]
      BY <1>1, ConcatProperties, LenProperties
<1>3. \A i \in DOMAIN (s \o t) :
        \/ i \in DOMAIN s /\ (s \o t)[i] = s[i]
        \/ i - Len(s) \in DOMAIN t /\ (s \o t)[i] = t[i - Len(s)]
      BY <1>1, <1>2
<1>4. \A i \in DOMAIN s : i \in DOMAIN (s \o t) /\ (s \o t)[i] = s[i]
      BY <1>1, <1>2
<1>5. \A i \in DOMAIN t : i + Len(s) \in DOMAIN (s \o t) /\ (s \o t)[i + Len(s)] = t[i]
      BY <1>1, <1>2
<1> DEFINE u == s \o t
<1> HIDE DEF u
<1>6. ASSUME NEW kinds
      PROVE  HasKind(u, kinds) <=> (HasKind(s, kinds) \/ HasKind(t, kinds))
  <2>1. HasKind(u, kinds) => HasKind(s, kinds) \/ HasKind(t, kinds)
        BY <1>3 DEF HasKind, u
  <2>2. HasKind(s, kinds) => HasKind(u, kinds)
        BY <1>4 DEF HasKind, u
  <2>3. HasKind(t, kinds) => HasKind(u, kinds)
        BY <1>5 DEF HasKind, u
  <2> QED BY <2>1, <2>2, <2>3
<1> QED BY <1>6 DEF u

LEMMA KindsTail ==
  ASSUME NEW s \in Glyphs, s # <<>>
  PROVE  /\ Head(s) \in AnyGlyph
         /\ \A kinds : HasKind(s, kinds) <=> (Head(s).kind \in kinds \/ HasKind(Tail(s), kinds))
         /\ \A style, n : Toned(s, style, n) =>
              /\ Toned(Tail(s), style, n)
              /\ Head(s).kind \in Text => StyleOutside(Head(s).tok) = style /\ OfRun(Head(s).tok, n)
         /\ \A n : TagBreak(s, n) <=>
              (TagBreak(Tail(s), n) \/ (Head(s).kind = "break" /\ ~SameRun(Head(s).tok, n)))
<1>1. /\ s \in Seq(AnyGlyph) /\ Len(s) \in Nat /\ DOMAIN s = 1 .. Len(s)
      BY LenProperties DEF Glyphs
<1>2. /\ Head(s) = s[1] /\ 1 \in DOMAIN s /\ Head(s) \in AnyGlyph
      /\ DOMAIN Tail(s) = 1 .. Len(s) - 1
      /\ \A i \in 1 .. Len(s) - 1 : Tail(s)[i] = s[i + 1]
      BY <1>1, HeadTailProperties, LenProperties, EmptySeq
<1>3. \A i \in DOMAIN Tail(s) : i + 1 \in DOMAIN s /\ Tail(s)[i] = s[i + 1]
      BY <1>1, <1>2
<1>4. \A i \in DOMAIN s : i = 1 \/ (i - 1 \in DOMAIN Tail(s) /\ Tail(s)[i - 1] = s[i])
  <2>1. ASSUME NEW i \in DOMAIN s, i # 1
        PROVE  i - 1 \in DOMAIN Tail(s) /\ Tail(s)[i - 1] = s[i]
    <3>1. i - 1 \in 1 .. Len(s) - 1 /\ (i - 1) + 1 = i
          BY <1>1, <2>1
    <3>2. Tail(s)[i - 1] = s[(i - 1) + 1]
          BY <1>2, <3>1
    <3> QED BY <1>2, <3>1, <3>2
  <2> QED BY <2>1
<1>5. \A kinds : HasKind(s, kinds) <=> (Head(s).kind \in kinds \/ HasKind(Tail(s), kinds))
      BY <1>2, <1>3, <1>4 DEF HasKind
<1>6. ASSUME NEW style, NEW n, Toned(s, style, n)
      PROVE  /\ Toned(Tail(s), style, n)
             /\ Head(s).kind \in Text => StyleOutside(Head(s).tok) = style /\ OfRun(Head(s).tok, n)
      BY <1>2, <1>3, <1>6 DEF Toned
<1>7. \A n : TagBreak(s, n) <=>
        (TagBreak(Tail(s), n) \/ (Head(s).kind = "break" /\ ~SameRun(Head(s).tok, n)))
      BY <1>2, <1>3, <1>4 DEF TagBreak
<1> QED BY <1>2, <1>5, <1>6, <1>7

LEMMA NoKinds ==
  /\ \A kinds : ~HasKind(<<>>, kinds)
  /\ \A style, n : Toned(<<>>, style, n)
  /\ \A n : ~TagBreak(<<>>, n)
<1>1. DOMAIN <<>> = {}
      OBVIOUS
<1> QED BY <1>1 DEF HasKind, Toned, TagBreak

LEMMA NoTextNoTone ==
  ASSUME NEW s, NEW n
  PROVE  /\ ~HasKind(s, Text) => \A style : Toned(s, style, n)
         /\ ~HasKind(s, {"break"}) => ~TagBreak(s, n)
BY DEF HasKind, Toned, TagBreak

\* The buffer, as the next state has it.
LEMMA SameBatch ==
  ASSUME doc' = doc
  PROVE  /\ \A kinds : HasKind(glyphBuffer, kinds)' <=> HasKind(glyphBuffer', kinds)
         /\ Toned(glyphBuffer, lineAttrib, off)' <=> Toned(glyphBuffer', lineAttrib', off')
         /\ TagBreak(glyphBuffer, off)' <=> TagBreak(glyphBuffer', off')
         /\ \A a : SameRun(a, off)' <=> SameRun(a, off')
<1>1. /\ \A k : StyleOutside(k)' = StyleOutside(k)
      /\ \A a, b : SameRun(a, b)' <=> SameRun(a, b)
      BY StylesStay
<1>2. \A a : SameRun(a, off)' <=> SameRun(a, off')
      BY DEF SameRun
<1>3. Toned(glyphBuffer, lineAttrib, off)' <=> Toned(glyphBuffer', lineAttrib', off')
      BY <1>1, <1>2 DEF Toned, OfRun
<1>4. TagBreak(glyphBuffer, off)' <=> TagBreak(glyphBuffer', off')
      BY <1>1, <1>2 DEF TagBreak
<1> QED BY <1>2, <1>3, <1>4 DEF HasKind

\* A run of words goes on with the token at hand.
LEMMA RunOn ==
  ASSUME TypeOK, ~AtEnd, Token \in Chars
  PROVE  /\ OfRun(Here, Here)
         /\ \A a : SameRun(a, off) => SameRun(a, Here)
         /\ \A s, style : Toned(s, style, off) => Toned(s, style, Here)
         /\ \A s : TagBreak(s, Here) => TagBreak(s, off)
<1>1. Token = doc[Here] /\ off \in Nat /\ Here = off + 1
      BY DocType DEF Here
<1>2. SameRun(Here, Here)
  <2>1. \A m \in Here .. Here : m = Here
        BY <1>1
  <2> QED BY <1>1, <2>1 DEF SameRun
<1>3. ASSUME NEW a, SameRun(a, off)
      PROVE  SameRun(a, Here)
  <2>1. \A m \in a .. Here : m = Here \/ m \in a .. off
        BY <1>1
  <2> QED BY <1>1, <1>3, <2>1 DEF SameRun
<1>4. ASSUME NEW k, OfRun(k, off)
      PROVE  OfRun(k, Here)
      BY <1>1, <1>3, <1>4 DEF OfRun
<1>5. OfRun(Here, Here)
      BY <1>1, <1>2 DEF OfRun
<1> QED BY <1>3, <1>4, <1>5 DEF Toned, TagBreak

\* The line in hand, if no glyph is taken and no new run of words begun.
LEMMA LineStays ==
  ASSUME LineBegun, doc' = doc, UNCHANGED <<first, pages, curLine>>,
         Running' => /\ Running /\ lineAttrib' = lineAttrib
                     /\ \A a : SameRun(a, off) => SameRun(a, off')
  PROVE  LineBegun'
<1>1. \A j : Since(j)' <=> Since(j)
      BY DEF Since
<1>2. \A j : SameRun(first[j].tok, off)' <=> SameRun(first[j].tok, off')
      BY SameBatch
<1> QED BY <1>1, <1>2 DEF LineBegun

BatchInv == BatchShape /\ LineBegun

\* Tags and tables run no words.
LEMMA TagBatch ==
  ASSUME BatchInv, doc' = doc, pc \notin {"ask", "words"}, pc' # "words",
         resumeProcWord' = resumeProcWord, UNCHANGED <<first, pages, curLine>>,
         ~HasKind(glyphBuffer', Text), pc' # "ask" => ~HasKind(glyphBuffer', {"break"})
  PROVE  BatchInv'
<1>1. ~resumeProcWord'
      BY DEF BatchInv, BatchShape
<1>2. \A kinds : HasKind(glyphBuffer, kinds)' <=> HasKind(glyphBuffer', kinds)
      BY DEF HasKind
<1>3. ~Running'
      BY <1>1, <1>2 DEF Running
<1>4. /\ Toned(glyphBuffer, lineAttrib, off)'
      /\ pc' # "ask" => ~TagBreak(glyphBuffer, off)'
      BY NoTextNoTone, SameBatch
<1>5. BatchShape'
      BY <1>1, <1>2, <1>3, <1>4 DEF BatchShape
<1> QED BY <1>3, <1>5, LineStays DEF BatchInv

\* One plain glyph more.
LEMMA TagBatchGrows ==
  ASSUME TypeOK, BatchInv, doc' = doc, pc \notin {"ask", "words"}, pc' # "words",
         resumeProcWord' = resumeProcWord, UNCHANGED <<first, pages, curLine>>,
         NEW g \in AnyGlyph, glyphBuffer' = Append(glyphBuffer, g),
         g.kind \notin Text, pc' # "ask" => g.kind # "break"
  PROVE  BatchInv'
<1>1. glyphBuffer \in Glyphs
      BY DEF TypeOK
<1>2. ~HasKind(glyphBuffer, Text) /\ ~HasKind(glyphBuffer, {"break"})
      BY DEF BatchInv, BatchShape
<1>3. ~HasKind(glyphBuffer', Text) /\ (pc' # "ask" => ~HasKind(glyphBuffer', {"break"}))
      BY <1>1, <1>2, KindsAppend
<1> QED BY <1>3, TagBatch

LEMMA BatchTags ==
  ASSUME TypeOK, BatchInv, doc' = doc,
         \/ Skip \/ BreakTag \/ ImgTag \/ ItemTag \/ ListTag \/ StyleTag \/ FontTag \/ TitleTag
         \/ TableTag \/ CellBegin \/ CellTag \/ CellListTag \/ CellSkip \/ CellWords
         \/ CellWord \/ CellWordsEnd \/ CellEnd \/ TableEnd
  PROVE  BatchInv'
<1> USE DEF modes, attribs, words, reader
<1>1. CASE Skip \/ ItemTag \/ ListTag \/ StyleTag \/ FontTag \/ TitleTag
           \/ TableTag \/ CellBegin \/ CellTag \/ CellListTag \/ CellSkip \/ CellWords
           \/ CellWord \/ CellWordsEnd \/ CellEnd
  <2>1. /\ pc \notin {"ask", "words"} /\ pc' \notin {"ask", "words"} /\ glyphBuffer' = glyphBuffer
        /\ resumeProcWord' = resumeProcWord /\ UNCHANGED <<first, pages, curLine>>
        BY <1>1 DEF Skip, ItemTag, ListTag, StyleTag, FontTag, TitleTag, TableTag, CellBegin,
                    CellTag, CellListTag, CellSkip, CellWords, CellWord, CellWordsEnd, CellEnd,
                    Tag, InTable
  <2>2. ~HasKind(glyphBuffer', Text) /\ ~HasKind(glyphBuffer', {"break"})
        BY <2>1 DEF BatchInv, BatchShape
  <2> QED BY <2>1, <2>2, TagBatch
<1>2. CASE BreakTag \/ ImgTag
  <2> DEFINE g == IF BreakTag THEN Plain(Here, "break") ELSE Plain(Here, "img")
  <2>1. /\ Plain(Here, "break") \in AnyGlyph /\ Plain(Here, "img") \in AnyGlyph
        /\ Plain(Here, "break").kind = "break" /\ Plain(Here, "img").kind = "img"
        BY DocType, PlainType, SimpleIsAny, PlainWritten DEF Kinds, Text
  <2>2. CASE BreakTag
    <3>1. /\ glyphBuffer' = Append(glyphBuffer, Plain(Here, "break")) /\ pc = "tags" /\ pc' = "ask"
          /\ resumeProcWord' = resumeProcWord /\ UNCHANGED <<first, pages, curLine>>
          BY <2>2 DEF BreakTag, Tag
    <3> QED BY <2>1, <3>1, TagBatchGrows DEF Text
  <2>3. CASE ImgTag
    <3>1. /\ glyphBuffer' = Append(glyphBuffer, Plain(Here, "img")) /\ pc = "tags" /\ pc' = "tags"
          /\ resumeProcWord' = resumeProcWord /\ UNCHANGED <<first, pages, curLine>>
          BY <2>3 DEF ImgTag, Tag
    <3> QED BY <2>1, <3>1, TagBatchGrows DEF Text
  <2> QED BY <1>2, <2>2, <2>3
<1>3. CASE TableEnd
  <2> DEFINE g == [Plain(Here, "table") EXCEPT !.cells = cell.glyphs]
  <2>1. Plain(Here, "table") \in AnyGlyph /\ Plain(Here, "table").kind = "table"
        BY DocType, PlainType, SimpleIsAny, PlainWritten DEF Kinds, Text
  <2>2. g \in AnyGlyph /\ g.kind = "table"
        BY <2>1 DEF AnyGlyph, TypeOK
  <2>3. /\ glyphBuffer' = Append(glyphBuffer, g) /\ pc = "table" /\ pc' = "tags"
        /\ resumeProcWord' = resumeProcWord /\ UNCHANGED <<first, pages, curLine>>
        BY <1>3 DEF TableEnd, InTable
  <2> HIDE DEF g
  <2> QED BY <2>2, <2>3, TagBatchGrows DEF Text
<1> QED BY <1>1, <1>2, <1>3

LEMMA BatchWords ==
  ASSUME TypeInv, FontInv, LineKnown, BatchInv, doc' = doc,
         Fill \/ AtEof \/ BeginWords \/ Word \/ EndWords \/ TurnPage \/ UNCHANGED vars
  PROVE  BatchInv'
<1> USE DEF modes, attribs, words, reader
<1>1. TypeOK /\ glyphBuffer \in Glyphs /\ delayedToken \in Glyphs
      BY DEF TypeInv, TypeOK
<1>2. \A kinds : HasKind(glyphBuffer, kinds)' <=> HasKind(glyphBuffer', kinds)
      BY DEF HasKind
<1>3. /\ Toned(glyphBuffer, lineAttrib, off)' <=> Toned(glyphBuffer', lineAttrib', off')
      /\ TagBreak(glyphBuffer, off)' <=> TagBreak(glyphBuffer', off')
      BY SameBatch
<1>4. BatchShape /\ LineBegun
      BY DEF BatchInv
<1>5. CASE Fill
  <2>1. /\ glyphBuffer = <<>> /\ glyphBuffer' = <<>> /\ lineAttrib' = lineAttrib /\ off' = off
        /\ UNCHANGED <<first, pages, curLine>> /\ ~resumeProcWord'
        /\ (pc' = "words" => resumeProcWord)
        BY <1>1, <1>5 DEF Fill, TypeOK
  <2>2. Running' => Running
        BY <1>2, <2>1, NoKinds DEF Running
  <2>3. BatchShape'
        BY <1>2, <1>3, <1>4, <2>1, <2>2, NoKinds DEF BatchShape
  <2> QED BY <1>4, <2>1, <2>2, <2>3, LineStays DEF BatchInv
<1>6. CASE AtEof
  <2>1. /\ glyphBuffer' = Append(glyphBuffer, Eof) /\ lineAttrib' = lineAttrib /\ pc' = "ask"
        /\ off' = off
        /\ UNCHANGED <<first, pages, curLine>> /\ resumeProcWord' = resumeProcWord
        /\ (pc = "ask" => glyphBuffer = <<>>)
        BY <1>6 DEF AtEof
  <2>2. Eof \in AnyGlyph /\ Eof.kind = "eof"
        BY <1>1, DocType, PlainType, SimpleIsAny, PlainWritten DEF Eof, Kinds, Text
  <2>3. /\ HasKind(glyphBuffer', Text) <=> HasKind(glyphBuffer, Text)
        /\ TagBreak(glyphBuffer', off) <=> TagBreak(glyphBuffer, off)
        /\ Toned(glyphBuffer', lineAttrib, off)
        BY <1>1, <1>4, <2>1, <2>2, KindsAppend DEF Text, BatchShape
  <2>4. Running' => Running
        BY <1>2, <2>1, <2>3 DEF Running
  <2>5. ~TagBreak(glyphBuffer, off)
        BY <1>4, <2>1, NoKinds DEF BatchShape
  <2>6. BatchShape'
        BY <1>2, <1>3, <1>4, <2>1, <2>3, <2>4, <2>5 DEF BatchShape
  <2> QED BY <1>4, <2>1, <2>4, <2>6, LineStays DEF BatchInv
<1>7. CASE BeginWords
  <2>1. /\ glyphBuffer' = glyphBuffer \o delayedToken /\ lineAttrib' = lineAttrib
        /\ pc = "tags" /\ pc' = "words" /\ UNCHANGED <<first, pages, off>>
        /\ resumeProcWord' = resumeProcWord /\ curLine' = [curLine EXCEPT !.style = lineAttrib]
        BY <1>7 DEF BeginWords
  <2>2. ~HasKind(delayedToken, Text) /\ ~HasKind(delayedToken, {"break"})
        BY DEF FontInv, GlyphsWritten, HasKind, Labels, Text
  <2>3. ~HasKind(glyphBuffer', Text) /\ ~HasKind(glyphBuffer', {"break"})
        BY <1>1, <1>4, <2>1, <2>2, KindsJoin DEF BatchShape
  <2>4. curLine'.style = lineAttrib' /\ curLine'.n = curLine.n
        BY <1>1, <2>1 DEF TypeOK
  <2>5. BatchShape'
        BY <1>2, <1>3, <1>4, <2>1, <2>3, <2>4, NoTextNoTone DEF BatchShape
  <2>6. \A j : Since(j)' <=> Since(j)
        BY <2>1 DEF Since
  <2>7. LineBegun'
        BY <1>4, <2>1, <2>4, <2>6 DEF LineBegun
  <2> QED BY <2>5, <2>7 DEF BatchInv
<1>8. CASE Word
  <2> DEFINE g == Glyph(Here, Shown(Token), glyphAttrib, Default)
  <2>1. /\ glyphBuffer' = (IF headerMode THEN glyphBuffer ELSE Append(glyphBuffer, g))
        /\ lineAttrib' = lineAttrib /\ pc = "words" /\ pc' \in {"ask", "words"}
        /\ (pc' = "words" => ~resumeProcWord') /\ UNCHANGED <<first, pages, curLine>>
        /\ ~AtEnd /\ Token \in Chars /\ off' = Here
        BY <1>8 DEF Word, InTitle, Read, Here
  <2>2. g \in AnyGlyph /\ g.tok = Here
    <3>1. Shown(Token) \in Kinds
          BY <2>1 DEF Shown, Chars, Kinds
    <3> QED BY <1>1, <3>1, WordType, SimpleIsAny, DefaultType, DocType DEF TypeOK, Glyph
  <2>3. ~headerMode => StyleOutside(Here) = lineAttrib
        BY DEF LineKnown, FontInv, TitleKnown
  <2> HIDE DEF g
  <2>4. Toned(glyphBuffer', lineAttrib, Here) /\ ~TagBreak(glyphBuffer', Here)
    <3>1. /\ Toned(glyphBuffer, lineAttrib, Here) /\ ~TagBreak(glyphBuffer, Here)
          /\ OfRun(Here, Here)
          BY <1>1, <1>4, <2>1, RunOn DEF BatchShape
    <3>2. CASE headerMode
          BY <2>1, <3>1, <3>2
    <3>3. CASE ~headerMode
          BY <1>1, <2>1, <2>2, <2>3, <3>1, <3>3, KindsAppend DEF OfRun
    <3> QED BY <3>2, <3>3
  <2>5. Running
        BY <2>1 DEF Running
  <2>6. BatchShape'
        BY <1>2, <1>3, <1>4, <2>1, <2>4, <2>5 DEF BatchShape
  <2>7. \A a : SameRun(a, off) => SameRun(a, off')
        BY <1>1, <2>1, RunOn
  <2> QED BY <1>4, <2>1, <2>5, <2>6, <2>7, LineStays DEF BatchInv
<1>9. CASE EndWords \/ UNCHANGED vars
  <2>1. /\ glyphBuffer' = glyphBuffer /\ lineAttrib' = lineAttrib /\ off' = off
        /\ UNCHANGED <<first, pages, curLine>> /\ resumeProcWord' = resumeProcWord
        /\ (pc' = pc \/ (pc = "words" /\ pc' = "ask"))
        BY <1>9 DEF EndWords, vars
  <2>2. Running' => Running
        BY <1>2, <2>1 DEF Running
  <2>3. BatchShape'
        BY <1>2, <1>3, <1>4, <2>1, <2>2 DEF BatchShape
  <2> QED BY <1>4, <2>1, <2>2, <2>3, LineStays DEF BatchInv
<1>10. CASE TurnPage
  <2>1. /\ UNCHANGED <<glyphBuffer, lineAttrib, pc, resumeProcWord, first, off>>
        /\ curLine' = FreshLine /\ pages' = Append(pages, ShadowDocState(glyphBuffer, Len(first)))
        BY <1>10 DEF TurnPage
  <2>2. BatchShape'
        BY <1>2, <1>3, <1>4, <2>1 DEF BatchShape, FreshLine, Running
  <2>3. /\ pages'[Len(pages) + 1].from = Len(first) /\ Len(pages) + 1 \in DOMAIN pages'
        /\ Len(first) \in Nat /\ DOMAIN first = 1 .. Len(first)
    <3>1. Len(first) \in Nat /\ DOMAIN first = 1 .. Len(first) /\ pages \in Seq(Saved)
          BY <1>1, LenProperties DEF TypeOK, Glyphs
    <3>2. ShadowDocState(glyphBuffer, Len(first)) \in Saved
          BY <1>1, <3>1 DEF ShadowDocState, Saved, Hidden, TypeOK
    <3>3. /\ pages'[Len(pages) + 1] = ShadowDocState(glyphBuffer, Len(first))
          /\ Len(pages) + 1 \in DOMAIN pages'
          BY <2>1, <3>1, <3>2, AppendProperties, LenProperties
    <3> QED BY <3>1, <3>3 DEF ShadowDocState
  <2>4. \A j \in DOMAIN first : ~Since(j)'
        BY <2>1, <2>3 DEF Since
  <2>5. LineBegun'
        BY <2>1, <2>4 DEF LineBegun
  <2> QED BY <2>2, <2>5 DEF BatchInv
<1> QED BY <1>5, <1>6, <1>7, <1>8, <1>9, <1>10

LEMMA BatchTake ==
  ASSUME TypeInv, BatchInv, doc' = doc, Take, back.n = 0
  PROVE  BatchInv'
<1> USE DEF modes, attribs, words, reader
<1> DEFINE g   == Head(glyphBuffer)
           set == [g EXCEPT !.line = LineOf(g).style]
<1>1. TypeOK /\ glyphBuffer \in Glyphs /\ first \in Glyphs
      BY DEF TypeInv, TypeOK
<1>2. /\ glyphBuffer' = Tail(glyphBuffer) /\ glyphBuffer # <<>> /\ first' = Append(first, set)
      /\ curLine' = LineAfter(g) /\ pc = "ask" /\ pc' = "ask"
      /\ UNCHANGED <<lineAttrib, pages, words, off>>
      BY DEF Take
<1>3. \A kinds : HasKind(glyphBuffer, kinds)' <=> HasKind(glyphBuffer', kinds)
      BY DEF HasKind
<1>4. /\ Toned(glyphBuffer, lineAttrib, off)' <=> Toned(glyphBuffer', lineAttrib', off')
      /\ TagBreak(glyphBuffer, off)' <=> TagBreak(glyphBuffer', off')
      /\ \A a : SameRun(a, off)' <=> SameRun(a, off)
      BY <1>2, SameBatch
<1>5. g \in AnyGlyph /\ set \in AnyGlyph /\ set.kind = g.kind /\ set.tok = g.tok
  <2>1. g \in AnyGlyph /\ set \in AnyGlyph
        BY <1>1, <1>2, HeadType
  <2> QED BY <2>1 DEF AnyGlyph
<1>6. BatchShape /\ LineBegun
      BY DEF BatchInv
<1>7. /\ Running' => Running
      /\ g.kind = "break" /\ ~SameRun(g.tok, off) => ~Running'
      BY <1>1, <1>2, <1>3, <1>6, KindsTail DEF Running, BatchShape
<1>8. curLine'.style \in {curLine.style, Default}
      BY <1>1, <1>2 DEF LineAfter, LineOf, FreshLine, TypeOK
<1>9. BatchShape'
  <2>1. TagBreak(glyphBuffer', off) => TagBreak(glyphBuffer, off)
        BY <1>1, <1>2, KindsTail
  <2>2. HasKind(glyphBuffer', Text) => HasKind(glyphBuffer, Text)
        BY <1>1, <1>2, KindsTail
  <2>3. Toned(glyphBuffer', lineAttrib, off)
        BY <1>1, <1>2, <1>6, KindsTail DEF BatchShape
  <2> QED BY <1>2, <1>3, <1>4, <1>6, <1>7, <1>8, <2>1, <2>2, <2>3 DEF BatchShape
<1> DEFINE n == Len(first)
<1>10. /\ n \in Nat /\ DOMAIN first = 1 .. n /\ Len(first') = n + 1
       /\ DOMAIN first' = 1 .. n + 1 /\ first'[n + 1] = set
       /\ \A j \in 1 .. n : first'[j] = first[j]
  <2>1. first \in Seq(AnyGlyph) /\ n \in Nat /\ DOMAIN first = 1 .. n
        BY <1>1, LenProperties DEF Glyphs
  <2> HIDE DEF set
  <2> QED BY <1>2, <1>5, <2>1, AppendProperties, LenProperties
<1> HIDE DEF set, g, n
<1>11. ASSUME NEW j \in 1 .. n + 1, Since(j)'
       PROVE  /\ curLine'.n = n + 1 - j
              /\ Running' /\ ~SameRun(first'[j].tok, off) => curLine'.style = lineAttrib
  <2>1. /\ first'[j].kind = "break" /\ n + 1 - j < LineLen
        /\ \A m \in j + 1 .. n + 1 : first'[m].kind \in Labels
        /\ \A p \in DOMAIN pages : pages[p].from \notin j .. n + 1
        BY <1>2, <1>10, <1>11 DEF Since
  <2>2. CASE j = n + 1
    <3>1. g.kind = "break"
          BY <1>5, <1>10, <2>1, <2>2
    <3>2. curLine' = FreshLine
          BY <1>2, <3>1 DEF LineAfter
    <3> QED BY <1>5, <1>7, <1>10, <2>2, <3>1, <3>2 DEF FreshLine
  <2>3. CASE j # n + 1
    <3>1. j \in 1 .. n /\ n + 1 \in j + 1 .. n + 1
          BY <1>10, <2>3
    <3>2. g.kind \in Labels
          BY <1>5, <1>10, <2>1, <3>1
    <3>3. Since(j)
      <4>1. n - j < LineLen
            BY <1>10, <2>1, <3>1, MarkupAssumption DEF MarkupAssumption
      <4>2. \A m \in j + 1 .. n : m \in j + 1 .. n + 1 /\ m \in 1 .. n
            BY <1>10, <3>1
      <4>3. \A m \in j + 1 .. n : first[m].kind \in Labels
            BY <1>10, <2>1, <4>2
      <4>4. j .. n \subseteq j .. n + 1
            BY <1>10, <3>1
      <4> QED BY <1>10, <2>1, <3>1, <4>1, <4>3, <4>4 DEF Since, n
    <3>4. /\ curLine.n = n - j
          /\ Running /\ ~SameRun(first[j].tok, off) => curLine.style = lineAttrib
          BY <1>6, <1>10, <3>1, <3>3 DEF LineBegun, n
    <3>5. curLine.n # LineLen /\ g.kind # "break"
          BY <1>10, <2>1, <3>1, <3>2, <3>4, MarkupAssumption DEF MarkupAssumption, Labels
    <3>6. curLine' = [curLine EXCEPT !.n = @ + 1]
          BY <1>2, <3>5 DEF LineAfter, LineOf
    <3>7. curLine'.n = curLine.n + 1 /\ curLine'.style = curLine.style
          BY <1>1, <3>6 DEF TypeOK
    <3> QED BY <1>7, <1>10, <3>1, <3>4, <3>7
  <2> QED BY <2>2, <2>3
<1>12. LineBegun'
       BY <1>2, <1>4, <1>10, <1>11 DEF LineBegun
<1> QED BY <1>9, <1>12 DEF BatchInv

\* Text is taken into a line of its paragraph.
LEMMA StyleTaken ==
  ASSUME TypeInv, FontInv, BatchInv, doc' = doc, Take, back.n = 0
  PROVE  StyleAsWritten'
<1> USE DEF modes, attribs, words, reader
<1> DEFINE g   == Head(glyphBuffer)
           set == [g EXCEPT !.line = LineOf(g).style]
           n   == Len(first)
<1>1. TypeOK /\ glyphBuffer \in Glyphs /\ first \in Glyphs /\ BatchShape /\ LineBegun
      BY DEF TypeInv, TypeOK, BatchInv
<1>2. glyphBuffer # <<>> /\ first' = Append(first, set) /\ pages' = pages
      BY DEF Take
<1>3. g \in AnyGlyph /\ set \in AnyGlyph /\ set.kind = g.kind /\ set.tok = g.tok
      /\ set.line = LineOf(g).style
  <2>1. g \in AnyGlyph /\ set \in AnyGlyph
        BY <1>1, <1>2, HeadType
  <2> QED BY <2>1 DEF AnyGlyph
<1>4. /\ n \in Nat /\ DOMAIN first = 1 .. n /\ Len(first') = n + 1
      /\ DOMAIN first' = 1 .. n + 1 /\ first'[n + 1] = set
      /\ \A j \in 1 .. n : first'[j] = first[j]
  <2>1. first \in Seq(AnyGlyph) /\ n \in Nat /\ DOMAIN first = 1 .. n
        BY <1>1, LenProperties DEF Glyphs
  <2> HIDE DEF set
  <2> QED BY <1>2, <1>3, <2>1, AppendProperties, LenProperties
<1>5. LineOf(g).style \in {curLine.style, Default}
      BY DEF LineOf, FreshLine
<1>6. 1 \in DOMAIN glyphBuffer /\ g = glyphBuffer[1]
      BY <1>1, <1>2, HeadTailProperties, LenProperties, EmptySeq DEF Glyphs
<1>7. Written(g)
      BY <1>6 DEF FontInv, GlyphsWritten, AllWritten
<1> DEFINE Begun(j) == /\ first'[j].kind = "break" /\ n + 1 - j <= LineLen
                       /\ \A m \in j + 1 .. n : first'[m].kind \in Labels
                       /\ \A p \in DOMAIN pages : pages[p].from \notin j .. n
<1> HIDE DEF set, g, n, Begun
<1>8. Latest(first)' = set
      BY <1>4 DEF Latest
<1>9. SUFFICES ASSUME g.kind \in Text
      PROVE  /\ LineOf(g).style \in {StyleAt(g.tok), Default}
             /\ \A j \in 1 .. n :
                  Begun(j) /\ ~SameRun(first[j].tok, g.tok) =>
                    LineOf(g).style = StyleAt(g.tok)
  <2>1. LatestIsText(first)' => g.kind \in Text
        BY <1>3, <1>8 DEF LatestIsText, IsText
  <2>2. \A k : StyleAt(k)' = StyleAt(k)
        BY StylesStay
  <2>3. Latest(first)'.tok = g.tok /\ Latest(first)'.line = LineOf(g).style
        BY <1>3, <1>8
  <2>4. Len(first') = n + 1 /\ Len(first') - 1 = n
        BY <1>4
  <2>5. ASSUME NEW j \in 1 .. n
        PROVE  /\ BeginsLine(j, Len(first))' => Begun(j)
               /\ SameRun(first[j].tok, Latest(first).tok)' <=> SameRun(first[j].tok, g.tok)
    <3>1. first'[j] = first[j]
          BY <1>4
    <3>2. SameRun(first[j].tok, Latest(first).tok)' <=> SameRun(first[j].tok, g.tok)
          BY <2>3, <3>1 DEF SameRun
    <3>3. BeginsLine(j, Len(first))' => Begun(j)
          BY <1>2, <2>4 DEF BeginsLine, Begun
    <3> QED BY <3>2, <3>3
  <2>6. ASSUME g.kind \in Text, NEW j \in 1 .. n,
               BeginsLine(j, Len(first))' /\ ~SameRun(first[j].tok, Latest(first).tok)'
        PROVE  LineOf(g).style = StyleAt(g.tok)
    <3>1. Begun(j) /\ ~SameRun(first[j].tok, g.tok)
          BY <2>5, <2>6
    <3> QED BY <1>9, <2>6, <3>1
  <2> QED BY <1>9, <2>1, <2>2, <2>3, <2>4, <2>6 DEF StyleAsWritten
<1>10. StyleAt(g.tok) = lineAttrib
  <2>1. CellOf(g.tok) = {}
        BY <1>7, <1>9 DEF Written
  <2>2. StyleOutside(g.tok) = lineAttrib
        BY <1>1, <1>2, <1>9, KindsTail DEF BatchShape, g
  <2> QED BY <2>1, <2>2, TagsOutside
<1>11. Running
  <2>1. HasKind(glyphBuffer, Text)
        BY <1>1, <1>2, <1>9, KindsTail DEF g
  <2> QED BY <2>1 DEF Running
<1>12. LineOf(g).style \in {lineAttrib, Default}
       BY <1>1, <1>5, <1>11 DEF BatchShape
<1>13. ASSUME NEW j \in 1 .. n, Begun(j), ~SameRun(first[j].tok, g.tok)
       PROVE  LineOf(g).style = lineAttrib
  <2>1. /\ first'[j].kind = "break" /\ n + 1 - j <= LineLen
        /\ \A m \in j + 1 .. n : first'[m].kind \in Labels
        /\ \A p \in DOMAIN pages : pages[p].from \notin j .. n
        BY <1>13 DEF Begun
  <2>2. n - j < LineLen /\ j + 1 .. n \subseteq 1 .. n
        BY <1>4, <2>1, MarkupAssumption DEF MarkupAssumption
  <2>3. Since(j)
        BY <1>4, <2>1, <2>2 DEF Since, n
  <2>4. ~SameRun(first[j].tok, off)
    <3>1. OfRun(g.tok, off)
          BY <1>1, <1>2, <1>9, KindsTail DEF BatchShape, g
    <3>2. SameRun(g.tok, off) /\ g.tok \in Nat /\ g.tok <= off
          BY <1>1, <3>1, DocType DEF OfRun
    <3>3. PICK m \in first[j].tok .. g.tok : doc[m] \notin Chars
          BY <1>13 DEF SameRun
    <3>4. m \in first[j].tok .. off
          BY <1>1, <3>2, <3>3, DocType
    <3> QED BY <3>3, <3>4 DEF SameRun
  <2>5. curLine.n = n - j /\ curLine.style = lineAttrib
        BY <1>1, <1>4, <1>11, <2>3, <2>4 DEF LineBegun, n
  <2>6. curLine.n # LineLen
        BY <1>4, <2>2, <2>5, MarkupAssumption DEF MarkupAssumption
  <2> QED BY <2>5, <2>6 DEF LineOf
<1> QED BY <1>10, <1>12, <1>13

\* Without a glyph taken the latest one stays as it was, and a page turn makes
\* none the first of its line.
LEMMA StyleKept ==
  ASSUME TypeInv, StyleAsWritten, doc' = doc, first' = first,
         pages' = pages \/ TurnPage
  PROVE  StyleAsWritten'
<1>1. \A p \in DOMAIN pages : p \in DOMAIN pages' /\ pages'[p] = pages[p]
  <2>1. CASE TurnPage
    <3> DEFINE s == ShadowDocState(glyphBuffer, Len(first))
    <3>1. pages' = Append(pages, s) /\ pages \in Seq(Saved) /\ TypeOK
          BY <2>1 DEF TurnPage, TypeInv, TypeOK
    <3>2. s \in Saved
      <4>1. Len(first) \in Nat
            BY <3>1, LenProperties DEF TypeOK, Glyphs
      <4> QED BY <3>1, <4>1 DEF ShadowDocState, Saved, Hidden, TypeOK, attribs, modes, words
    <3> HIDE DEF s
    <3> QED BY <3>1, <3>2, AppendProperties, LenProperties
  <2> QED BY <2>1
<1>2. \A j, k : BeginsLine(j, k)' => BeginsLine(j, k)
      BY <1>1 DEF BeginsLine
<1>3. \A k : StyleAt(k)' = StyleAt(k)
      BY StylesStay
<1>4. Latest(first)' = Latest(first) /\ (LatestIsText(first)' <=> LatestIsText(first))
      BY DEF Latest, LatestIsText, IsText
<1>5. ASSUME NEW j \in 1 .. Len(first) - 1
      PROVE  /\ BeginsLine(j, Len(first))' => BeginsLine(j, Len(first))
             /\ SameRun(first[j].tok, Latest(first).tok)' <=>
                  SameRun(first[j].tok, Latest(first).tok)
  <2>1. BeginsLine(j, Len(first))' => BeginsLine(j, Len(first))
        BY <1>2 DEF BeginsLine
  <2>2. SameRun(first[j].tok, Latest(first).tok)' <=> SameRun(first[j].tok, Latest(first).tok)
        BY <1>4 DEF SameRun
  <2> QED BY <2>1, <2>2
<1> QED BY <1>3, <1>4, <1>5 DEF StyleAsWritten

LEMMA StyleStart == Init => StyleInv
<1> SUFFICES ASSUME Init PROVE StyleInv
    OBVIOUS
<1>1. off = 0 /\ Here = 1 /\ 1 .. Here - 1 = {}
      BY DEF Init, Here
<1>2. ListAt(Here) = "/list"
      BY <1>1 DEF ListAt
<1>3. StyleOutside(Here) = Default
  <2>1. Outside(Here, StyleTags) = {} /\ Unlisted(Here) = {}
        BY <1>1 DEF Outside, Unlisted
  <2> QED BY <2>1 DEF StyleOutside, Given, Default
<1>4. first = <<>> /\ DOMAIN first = {} /\ glyphBuffer = <<>> /\ pc = "ask" /\ ~resumeProcWord
      BY DEF Init
<1>5. StyleAsWritten
      BY <1>4 DEF StyleAsWritten, LatestIsText
<1>6. ListKnown /\ LineKnown
      BY <1>2, <1>3 DEF ListKnown, LineKnown, Init, ListModeOf, Lists
<1>7. BatchShape
      BY <1>4, NoKinds DEF BatchShape, Running
<1>8. LineBegun
      BY <1>4 DEF LineBegun
<1> QED BY <1>5, <1>6, <1>7, <1>8 DEF StyleInv

\* Looks back are never forgotten.
LEMMA BackGrows ==
  ASSUME TypeOK, [Next]_vars, back'.n = 0
  PROVE  back.n = 0 /\ \A p \in 1 .. MaxPages : ~RestoreDocState(p)
<1> USE DEF modes, attribs, words, reader
<1>1. ASSUME NEW p \in 1 .. MaxPages, RestoreDocState(p)
      PROVE  FALSE
  <2>1. back'.n = back.n + 1 /\ back.n \in Nat
        BY <1>1, MarkupAssumption DEF MarkupAssumption, RestoreDocState, TypeOK
  <2> QED BY <2>1
<1>2. (\A p \in 1 .. MaxPages : ~RestoreDocState(p)) => back' = back
      BY DEF Next, Parser, vars, Fill, AtEof, Skip, BreakTag, ImgTag, Tag,
             ItemTag, ListTag, StyleTag, FontTag, TitleTag, BeginWords, Word, EndWords, TableTag,
             CellBegin, CellTag, CellListTag, CellSkip, CellWords, CellWord, CellWordsEnd, CellEnd,
             TableEnd, InTable, Take, TurnPage
<1> QED BY <1>1, <1>2

\* Only a glyph that is taken adds to the first reading.
LEMMA FirstStays ==
  ASSUME [Next]_vars, ~(Take /\ back.n = 0)
  PROVE  first' = first /\ (pages' = pages \/ TurnPage)
<1> USE DEF modes, attribs, words, reader
<1>1. CASE Take
      BY <1>1 DEF Take
<1>2. CASE TurnPage
      BY <1>2 DEF TurnPage
<1>3. CASE ~Take /\ ~TurnPage
      BY <1>3 DEF Next, Parser, vars, Fill, AtEof, Skip, BreakTag, ImgTag, Tag,
             ItemTag, ListTag, StyleTag, FontTag, TitleTag, BeginWords, Word, EndWords, TableTag,
             CellBegin, CellTag, CellListTag, CellSkip, CellWords, CellWord, CellWordsEnd, CellEnd,
             TableEnd, InTable, RestoreDocState
<1> QED BY <1>1, <1>2, <1>3

LEMMA StyleStep ==
  ASSUME TypeInv, FontInv, StyleInv, [Next]_vars
  PROVE  StyleInv'
<1>1. TypeOK /\ PlaceInv /\ StyleAsWritten /\ doc' = doc
      BY DocStays DEF TypeInv, FontInv, StyleInv, PlaceInv
<1>2. StyleAsWritten'
  <2>1. CASE Take /\ back.n = 0
        BY <1>1, <2>1, StyleTaken DEF StyleInv, BatchInv
  <2>2. CASE ~(Take /\ back.n = 0)
        BY <1>1, <2>2, FirstStays, StyleKept
  <2> QED BY <2>1, <2>2
<1>3. ASSUME back'.n = 0
      PROVE  (ListKnown /\ LineKnown /\ BatchInv)'
  <2>1. /\ back.n = 0 /\ ListKnown /\ LineKnown /\ BatchInv
        /\ \A p \in 1 .. MaxPages : ~RestoreDocState(p)
        BY <1>1, <1>3, BackGrows DEF StyleInv, BatchInv
  <2>2. ListKnown'
        BY <1>1, <1>3, <2>1, ListStep
  <2>3. LineKnown'
        BY <1>1, <1>3, <2>1, LineStep
  <2>4. Take => BatchInv'
        BY <1>1, <2>1, BatchTake
  <2>5. Fill \/ AtEof \/ BeginWords \/ Word \/ EndWords \/ TurnPage \/ UNCHANGED vars
          => BatchInv'
        BY <1>1, <2>1, BatchWords
  <2>6. ASSUME \/ Skip \/ BreakTag \/ ImgTag \/ ItemTag \/ ListTag \/ StyleTag \/ FontTag \/ TitleTag
               \/ TableTag \/ CellBegin \/ CellTag \/ CellListTag \/ CellSkip \/ CellWords
               \/ CellWord \/ CellWordsEnd \/ CellEnd \/ TableEnd
        PROVE  BatchInv'
        BY <1>1, <2>1, <2>6, BatchTags
  <2>7. BatchInv'
        BY <2>1, <2>4, <2>5, <2>6 DEF Next, Parser
  <2> QED BY <2>2, <2>3, <2>7
<1> QED BY <1>2, <1>3 DEF StyleInv, BatchInv

LEMMA StyleAlways == Spec => []StyleInv
<1>1. Init => StyleInv
      BY StyleStart
<1>2. TypeInv /\ FontInv /\ StyleInv /\ [Next]_vars => StyleInv'
      BY StyleStep
<1> QED BY <1>1, <1>2, TypeAlways, FontAlways, PTL DEF Spec

\* In a first reading the text of a paragraph is set in lines of its style or
\* the default, and in its own behind a break that is not a newline in the
\* same run of words: SetAttrib at the begin of a run, and getStyle.
THEOREM TextHasItsStyle == Spec => []StyleAsWritten
<1>1. StyleInv => StyleAsWritten
      BY DEF StyleInv
<1> QED BY <1>1, StyleAlways, PTL

-----------------------------------------------------------------------------
(* Labels, in a first reading.                                              *)

\* The items whose text the token at hand would begin.
Pending(k) ==
  {j \in 1 .. k - 1 :
     /\ doc[j] = "li" /\ ListAt(j) # "/list" /\ CellOf(j) = {}
     /\ \A i \in j .. k - 1 : doc[i] \in {"c", "e"} => CellOf(i) # {}}

\* What a glyph shows, and the labels of items.
Shows(g)    == Plain(g.tok, g.kind)
LabelsOf(J) == {Plain(j, LabelOf(j)) : j \in J}

\* The glyphs up to the m-th of s end in the labels of the items J.
EndsAt(s, m, J) ==
  LET n == Cardinality(J)
  IN  n <= m /\ {Shows(s[x]) : x \in m - n + 1 .. m} = LabelsOf(J)
EndsIn(s, J) == EndsAt(s, Len(s), J)

AllGlyphs == first \o glyphBuffer
LabelledAt(i) ==
  AllGlyphs[i].kind \in Text => EndsAt(AllGlyphs, i - 1, Pending(AllGlyphs[i].tok))

\* Lists outside cells whose items olType says right: it is what the last <ol>
\* outside cells with a letter, or without a type, asked for.
OlTags == {"ol", "ola"}
OlTypeAt(k) == IF LastOutside(k, OlTags) = "ola" THEN "OL_LETTER" ELSE "OL_NUM"
ListsSayTheirType ==
  \A k \in DOMAIN doc : doc[k] = "li" /\ CellOf(k) = {} /\ ListModeOf(ListAt(k)) = "LM_ORDER" =>
    (OlTypeAt(k) = "OL_LETTER" <=> ListAt(k) = "ola")

LabelShape ==
  /\ olType = OlTypeAt(Here)
  /\ \A i \in DOMAIN AllGlyphs : LabelledAt(i)
  /\ resumeProcWord => pc = "ask" /\ Pending(Here) = {}
  /\ pc # "words" => EndsIn(delayedToken, Pending(Here))
  /\ pc = "words" => /\ EndsIn(AllGlyphs, Pending(Here))
                     /\ (~AtEnd /\ Token \in {"c", "e"}) \/ Pending(Here) = {}

LabelInv == ListsSayTheirType => Labelled /\ (back.n = 0 => LabelShape)

\* What the document says of its places stays.
LEMMA LabelsStay ==
  ASSUME doc' = doc
  PROVE  /\ \A k : Pending(k)' = Pending(k)
         /\ \A k : OlTypeAt(k)' = OlTypeAt(k)
         /\ \A k : ItemsBegunBy(k)' = ItemsBegunBy(k)
         /\ \A s, m, J : EndsAt(s, m, J)' <=> EndsAt(s, m, J)
         /\ \A J : LabelsOf(J)' = LabelsOf(J)
         /\ ListsSayTheirType' <=> ListsSayTheirType
<1>1. \A k : CellOf(k)' = CellOf(k)
      BY PlacesStay
<1>2. \A k : ListAt(k)' = ListAt(k)
      BY StylesStay
<1>3. \A k : Pending(k)' = Pending(k)
      BY <1>1, <1>2 DEF Pending
<1>4. \A k : ItemsBegunBy(k)' = ItemsBegunBy(k)
      BY <1>1, <1>2 DEF ItemsBegunBy
<1>5. \A k, tags : Outside(k, tags)' = Outside(k, tags)
      BY <1>1 DEF Outside
<1>6. \A k : OlTypeAt(k)' = OlTypeAt(k)
      BY <1>5 DEF OlTypeAt, LastOutside
<1>7. \A j : LabelOf(j)' = LabelOf(j)
      BY <1>2 DEF LabelOf
<1>8. \A J : LabelsOf(J)' = LabelsOf(J)
      BY <1>7 DEF LabelsOf
<1>9. \A s, m, J : EndsAt(s, m, J)' <=> EndsAt(s, m, J)
      BY <1>8 DEF EndsAt
<1>10. ListsSayTheirType' <=> ListsSayTheirType
       BY <1>1, <1>2, <1>6 DEF ListsSayTheirType
<1> QED BY <1>3, <1>4, <1>6, <1>8, <1>9, <1>10

LEMMA PendingFinite ==
  ASSUME NEW k \in Nat
  PROVE  IsFiniteSet(Pending(k))
<1>1. IsFiniteSet(1 .. k - 1)
      BY FS_Interval
<1>2. Pending(k) \subseteq 1 .. k - 1
      BY DEF Pending
<1> QED BY <1>1, <1>2, FS_Subset

LEMMA PendingNext ==
  ASSUME NEW k \in Nat \ {0}
  PROVE  /\ Pending(k) \in SUBSET (1 .. k - 1) /\ IsFiniteSet(Pending(k)) /\ k \notin Pending(k)
         /\ Pending(k + 1) =
              IF CellOf(k) # {} THEN Pending(k)
              ELSE IF doc[k] \in {"c", "e"} THEN {}
              ELSE Pending(k) \cup (IF doc[k] = "li" /\ ListAt(k) # "/list" THEN {k} ELSE {})
<1> DEFINE Open(j, e) == \A i \in j .. e : doc[i] \in {"c", "e"} => CellOf(i) # {}
           Item(j)    == doc[j] = "li" /\ ListAt(j) # "/list" /\ CellOf(j) = {}
<1>1. Pending(k) = {j \in 1 .. k - 1 : Item(j) /\ Open(j, k - 1)}
      BY DEF Pending
<1>2. Pending(k + 1) = {j \in 1 .. k : Item(j) /\ Open(j, k)}
  <2>1. (k + 1) - 1 = k
        OBVIOUS
  <2> QED BY <2>1 DEF Pending
<1>3. \A j \in 1 .. k - 1 :
        Open(j, k) <=> (Open(j, k - 1) /\ (doc[k] \in {"c", "e"} => CellOf(k) # {}))
      BY PlacesBefore
<1>4. Open(k, k) <=> (doc[k] \in {"c", "e"} => CellOf(k) # {})
      BY PlacesBefore
<1>5. 1 .. k = (1 .. k - 1) \cup {k} /\ k \notin 1 .. k - 1
      BY PlacesBefore
<1> HIDE DEF Open, Item
<1>6. \A j \in 1 .. k : j \in Pending(k + 1) <=>
        /\ j \in Pending(k) \/ (j = k /\ Item(k))
        /\ doc[k] \in {"c", "e"} => CellOf(k) # {}
      BY <1>1, <1>2, <1>3, <1>4, <1>5
<1>7. Pending(k) \subseteq 1 .. k - 1 /\ Pending(k + 1) \subseteq 1 .. k
      BY <1>1, <1>2
<1>8. IsFiniteSet(Pending(k))
      BY PendingFinite
<1>9. Pending(k + 1) = IF CellOf(k) # {} THEN Pending(k)
              ELSE IF doc[k] \in {"c", "e"} THEN {}
              ELSE Pending(k) \cup (IF doc[k] = "li" /\ ListAt(k) # "/list" THEN {k} ELSE {})
      BY <1>5, <1>6, <1>7 DEF Item
<1> QED BY <1>5, <1>7, <1>8, <1>9

LEMMA LabelReadOn ==
  ASSUME TypeOK, ~AtEnd, Read, doc' = doc
  PROVE  /\ Pending(Here)' =
              IF CellOf(Here) # {} THEN Pending(Here)
              ELSE IF Token \in {"c", "e"} THEN {}
              ELSE Pending(Here) \cup
                     (IF Token = "li" /\ ListAt(Here) # "/list" THEN {Here} ELSE {})
         /\ OlTypeAt(Here)' =
              IF Token \in OlTags /\ CellOf(Here) = {}
              THEN (IF Token = "ola" THEN "OL_LETTER" ELSE "OL_NUM")
              ELSE OlTypeAt(Here)
<1>1. Here \in Nat \ {0} /\ Token = doc[Here] /\ Here' = Here + 1
      BY DocType DEF Here, Token, Read
<1>2. Pending(Here)' = Pending(Here + 1) /\ OlTypeAt(Here)' = OlTypeAt(Here + 1)
      BY <1>1, LabelsStay
<1>3. OlTypeAt(Here + 1) = IF Token \in OlTags /\ CellOf(Here) = {}
                           THEN (IF Token = "ola" THEN "OL_LETTER" ELSE "OL_NUM")
                           ELSE OlTypeAt(Here)
      BY <1>1, LastOutsideNext DEF OlTypeAt, OlTags
<1> QED BY <1>1, <1>2, <1>3, PendingNext

\* Sequences that show the same end in the same labels.
LEMMA SameEnds ==
  ASSUME NEW s, NEW t, NEW m \in Nat, NEW J, IsFiniteSet(J),
         \A x \in 1 .. m : Shows(s[x]) = Shows(t[x]), EndsAt(s, m, J)
  PROVE  EndsAt(t, m, J)
<1> DEFINE n == Cardinality(J)
<1>1. n \in Nat /\ n <= m
      BY FS_CardinalityType DEF EndsAt
<1> HIDE DEF n
<1>2. m - n + 1 .. m \subseteq 1 .. m
      BY <1>1
<1>3. {Shows(s[x]) : x \in m - n + 1 .. m} = {Shows(t[x]) : x \in m - n + 1 .. m}
      BY <1>2
<1> QED BY <1>1, <1>3 DEF EndsAt, n

LEMMA NoneEnds ==
  ASSUME NEW s, NEW m \in Nat
  PROVE  EndsAt(s, m, {})
<1>1. Cardinality({}) = 0
      BY FS_EmptySet
<1>2. m - 0 + 1 .. m = {} /\ 0 <= m
      OBVIOUS
<1> QED BY <1>1, <1>2 DEF EndsAt, LabelsOf

\* A label more.
LEMMA OneMoreEnds ==
  ASSUME NEW s, NEW t, NEW m \in Nat, NEW J, IsFiniteSet(J), NEW j, j \notin J,
         \A x \in 1 .. m : Shows(s[x]) = Shows(t[x]), EndsAt(s, m, J),
         Shows(t[m + 1]) = Plain(j, LabelOf(j))
  PROVE  EndsAt(t, m + 1, J \cup {j})
<1> DEFINE n == Cardinality(J)
<1>1. n \in Nat /\ n <= m /\ Cardinality(J \cup {j}) = n + 1
      BY FS_CardinalityType, FS_AddElement DEF EndsAt
<1>2. {Shows(s[x]) : x \in m - n + 1 .. m} = LabelsOf(J)
      BY DEF EndsAt
<1> HIDE DEF n
<1>3. m - n + 1 .. m \subseteq 1 .. m /\ (m + 1) - (n + 1) + 1 = m - n + 1
      /\ m - n + 1 .. m + 1 = (m - n + 1 .. m) \cup {m + 1} /\ n + 1 <= m + 1
      BY <1>1
<1>4. {Shows(s[x]) : x \in m - n + 1 .. m} = {Shows(t[x]) : x \in m - n + 1 .. m}
      BY <1>3
<1>5. {Shows(t[x]) : x \in m - n + 1 .. m + 1} =
        {Shows(t[x]) : x \in m - n + 1 .. m} \cup {Shows(t[m + 1])}
      BY <1>3
<1>6. LabelsOf(J \cup {j}) = LabelsOf(J) \cup {Plain(j, LabelOf(j))}
      BY DEF LabelsOf
<1>7. {Shows(t[x]) : x \in m - n + 1 .. m + 1} = LabelsOf(J \cup {j})
      BY <1>2, <1>4, <1>5, <1>6
<1> QED BY <1>1, <1>3, <1>7 DEF EndsAt

LEMMA JoinIndex ==
  ASSUME NEW s \in Glyphs, NEW t \in Glyphs
  PROVE  /\ s \o t \in Glyphs /\ Len(s) \in Nat /\ Len(t) \in Nat
         /\ Len(s \o t) = Len(s) + Len(t) /\ DOMAIN (s \o t) = 1 .. Len(s) + Len(t)
         /\ \A x \in 1 .. Len(s) : (s \o t)[x] = s[x]
         /\ \A x \in 1 .. Len(t) : (s \o t)[Len(s) + x] = t[x]
<1>1. s \in Seq(AnyGlyph) /\ t \in Seq(AnyGlyph) /\ Len(s) \in Nat /\ Len(t) \in Nat
      BY LenProperties DEF Glyphs
<1>2. /\ s \o t \in Seq(AnyGlyph) /\ Len(s \o t) = Len(s) + Len(t)
      /\ \A i \in 1 .. Len(s) + Len(t) :
           (s \o t)[i] = IF i <= Len(s) THEN s[i] ELSE t[i - Len(s)]
      BY <1>1, ConcatProperties
<1>3. DOMAIN (s \o t) = 1 .. Len(s) + Len(t)
      BY <1>2, LenProperties
<1>4. \A x \in 1 .. Len(s) : x \in 1 .. Len(s) + Len(t) /\ x <= Len(s)
      BY <1>1
<1>5. \A x \in 1 .. Len(t) : Len(s) + x \in 1 .. Len(s) + Len(t) /\ ~(Len(s) + x <= Len(s))
                             /\ (Len(s) + x) - Len(s) = x
      BY <1>1
<1> QED BY <1>1, <1>2, <1>3, <1>4, <1>5 DEF Glyphs

\* Labels that are joined to other glyphs come last.
LEMMA JoinEnds ==
  ASSUME NEW s \in Glyphs, NEW t \in Glyphs, NEW J, IsFiniteSet(J), EndsIn(t, J)
  PROVE  EndsIn(s \o t, J)
<1> DEFINE n == Cardinality(J)
           a == Len(s)
           b == Len(t)
<1>1. /\ n \in Nat /\ n <= b
      /\ {Shows(t[x]) : x \in b - n + 1 .. b} = LabelsOf(J)
      BY FS_CardinalityType DEF EndsIn, EndsAt
<1>2. a \in Nat /\ b \in Nat /\ Len(s \o t) = a + b /\ \A x \in 1 .. b : (s \o t)[a + x] = t[x]
      BY JoinIndex
<1> HIDE DEF n, a, b
<1>3. \A x \in b - n + 1 .. b : x \in 1 .. b /\ a + x \in (a + b) - n + 1 .. a + b
      BY <1>1, <1>2
<1>4. \A y \in (a + b) - n + 1 .. a + b : y - a \in b - n + 1 .. b /\ a + (y - a) = y
      BY <1>1, <1>2
<1>5. \A x \in b - n + 1 .. b : (s \o t)[a + x] = t[x]
      BY <1>2, <1>3
<1>6. {Shows((s \o t)[y]) : y \in (a + b) - n + 1 .. a + b} = {Shows(t[x]) : x \in b - n + 1 .. b}
      BY <1>3, <1>4, <1>5
<1>7. n <= a + b
      BY <1>1, <1>2
<1>8. EndsAt(s \o t, a + b, J)
      BY <1>1, <1>6, <1>7 DEF EndsAt, n
<1> QED BY <1>2, <1>8 DEF EndsIn

\* Glyphs that are made later label nothing before them.
LEMMA AllLabelled ==
  ASSUME TypeOK, doc' = doc, NEW n \in Nat, NEW m \in Nat,
         DOMAIN AllGlyphs = 1 .. n, DOMAIN AllGlyphs' = 1 .. n + m,
         \A x \in 1 .. n : Shows(AllGlyphs'[x]) = Shows(AllGlyphs[x]),
         \A x \in n + 1 .. n + m : AllGlyphs'[x].kind \notin Text,
         \A i \in DOMAIN AllGlyphs : LabelledAt(i),
         \A i \in DOMAIN AllGlyphs : AllGlyphs[i].kind \in Text => AllGlyphs[i].tok \in Nat
  PROVE  \A i \in DOMAIN AllGlyphs' : LabelledAt(i)'
<1> SUFFICES ASSUME NEW i \in 1 .. n + m, AllGlyphs'[i].kind \in Text
    PROVE  EndsAt(AllGlyphs', i - 1, Pending(AllGlyphs'[i].tok))
    BY LabelsStay DEF LabelledAt
<1>1. i \in 1 .. n /\ i - 1 \in Nat /\ 1 .. i - 1 \subseteq 1 .. n
  <2>1. i \in 1 .. n \/ i \in n + 1 .. n + m
        OBVIOUS
  <2> QED BY <2>1
<1>2. AllGlyphs[i].kind = AllGlyphs'[i].kind /\ AllGlyphs[i].tok = AllGlyphs'[i].tok
  <2>1. \A g : Shows(g).kind = g.kind /\ Shows(g).tok = g.tok
        BY DEF Shows, Plain, Glyph
  <2> QED BY <1>1, <2>1
<1> DEFINE J == Pending(AllGlyphs[i].tok)
<1>3. EndsAt(AllGlyphs, i - 1, J)
      BY <1>1, <1>2 DEF LabelledAt
<1>4. IsFiniteSet(J)
      BY <1>1, <1>2, PendingFinite
<1>5. \A x \in 1 .. i - 1 : Shows(AllGlyphs[x]) = Shows(AllGlyphs'[x])
      BY <1>1
<1> HIDE DEF J
<1>6. EndsAt(AllGlyphs', i - 1, J)
      BY <1>1, <1>3, <1>4, <1>5, SameEnds
<1> QED BY <1>2, <1>6 DEF J

\* The glyphs of the first reading and the buffer, as one.
LEMMA AllIndex ==
  ASSUME TypeOK
  PROVE  /\ AllGlyphs \in Glyphs /\ Len(first) \in Nat /\ Len(glyphBuffer) \in Nat
         /\ Len(AllGlyphs) = Len(first) + Len(glyphBuffer)
         /\ DOMAIN AllGlyphs = 1 .. Len(first) + Len(glyphBuffer)
         /\ \A x \in 1 .. Len(first) : AllGlyphs[x] = first[x]
         /\ \A x \in 1 .. Len(glyphBuffer) : AllGlyphs[Len(first) + x] = glyphBuffer[x]
         /\ \A i \in DOMAIN AllGlyphs : AllGlyphs[i].tok \in Nat
<1>1. first \in Glyphs /\ glyphBuffer \in Glyphs
      BY DEF TypeOK
<1>2. AllGlyphs \in Seq(AnyGlyph)
      BY <1>1, JoinIndex DEF AllGlyphs, Glyphs
<1>3. \A i \in DOMAIN AllGlyphs : AllGlyphs[i] \in AnyGlyph
      BY <1>2, ElementOfSeq, LenProperties
<1> QED BY <1>1, <1>3, JoinIndex DEF AllGlyphs, AnyGlyph

LEMMA JoinThree ==
  ASSUME NEW s \in Seq(AnyGlyph), NEW t \in Seq(AnyGlyph), NEW u \in Seq(AnyGlyph)
  PROVE  s \o (t \o u) = (s \o t) \o u
<1>1. (s \o t) \o u = s \o (t \o u)
      BY ConcatAssociative
<1> QED BY <1>1

\* Glyphs that are not text may follow.
LEMMA AllGrow ==
  ASSUME TypeOK, doc' = doc, first' = first, NEW t \in Glyphs, glyphBuffer' = glyphBuffer \o t,
         ~HasKind(t, Text), \A i \in DOMAIN AllGlyphs : LabelledAt(i)
  PROVE  \A i \in DOMAIN AllGlyphs' : LabelledAt(i)'
<1> DEFINE n == Len(AllGlyphs)
           m == Len(t)
<1>1. AllGlyphs \in Glyphs /\ n \in Nat /\ m \in Nat /\ DOMAIN AllGlyphs = 1 .. n
      BY AllIndex, JoinIndex
<1>2. AllGlyphs' = AllGlyphs \o t
  <2>1. first \in Seq(AnyGlyph) /\ glyphBuffer \in Seq(AnyGlyph) /\ t \in Seq(AnyGlyph)
        BY DEF TypeOK, Glyphs
  <2>2. first \o (glyphBuffer \o t) = (first \o glyphBuffer) \o t
        BY <2>1, JoinThree
  <2> QED BY <2>2 DEF AllGlyphs
<1>3. /\ DOMAIN AllGlyphs' = 1 .. n + m
      /\ \A x \in 1 .. n : AllGlyphs'[x] = AllGlyphs[x]
      /\ \A x \in 1 .. m : AllGlyphs'[n + x] = t[x]
      BY <1>1, <1>2, JoinIndex
<1>4. DOMAIN t = 1 .. m
      BY LenProperties DEF Glyphs
<1> HIDE DEF n, m
<1>5. ASSUME NEW x \in n + 1 .. n + m
      PROVE  AllGlyphs'[x].kind \notin Text
  <2>1. x - n \in 1 .. m /\ n + (x - n) = x
        BY <1>1
  <2>2. AllGlyphs'[x] = t[x - n]
        BY <1>3, <2>1
  <2> QED BY <1>4, <2>1, <2>2 DEF HasKind
<1>6. \A i \in DOMAIN AllGlyphs : AllGlyphs[i].tok \in Nat
      BY AllIndex
<1> QED BY <1>1, <1>3, <1>5, <1>6, AllLabelled

LEMMA AllStay ==
  ASSUME TypeOK, doc' = doc, first' = first, glyphBuffer' = glyphBuffer,
         \A i \in DOMAIN AllGlyphs : LabelledAt(i)
  PROVE  \A i \in DOMAIN AllGlyphs' : LabelledAt(i)'
<1>1. glyphBuffer' = glyphBuffer \o <<>> /\ <<>> \in Glyphs
      BY ConcatEmptySeq, EmptySeq DEF TypeOK, Glyphs
<1> QED BY <1>1, NoKinds, AllGrow

LEMMA AllGrowOne ==
  ASSUME TypeOK, doc' = doc, first' = first, NEW g \in AnyGlyph, g.kind \notin Text,
         glyphBuffer' = Append(glyphBuffer, g), \A i \in DOMAIN AllGlyphs : LabelledAt(i)
  PROVE  \A i \in DOMAIN AllGlyphs' : LabelledAt(i)'
<1>1. <<>> \in Glyphs /\ Append(<<>>, g) = <<g>>
      BY EmptySeq DEF Glyphs
<1>2. <<g>> \in Glyphs
      BY <1>1, AppendType DEF Glyphs
<1>3. ~HasKind(<<g>>, Text)
      BY <1>1, NoKinds, KindsAppend
<1>4. glyphBuffer' = glyphBuffer \o <<g>>
      BY AppendIsConcat DEF TypeOK, Glyphs
<1> QED BY <1>2, <1>3, <1>4, AllGrow

\* A glyph that is taken moves from the buffer to the first reading.
LEMMA AllTaken ==
  ASSUME TypeOK, doc' = doc, Take, back.n = 0, \A i \in DOMAIN AllGlyphs : LabelledAt(i)
  PROVE  \A i \in DOMAIN AllGlyphs' : LabelledAt(i)'
<1> DEFINE g   == Head(glyphBuffer)
           set == [g EXCEPT !.line = LineOf(g).style]
           a   == Len(first)
           b   == Len(glyphBuffer)
<1>1. glyphBuffer \in Glyphs /\ first \in Glyphs
      BY DEF TypeOK
<1>2. glyphBuffer' = Tail(glyphBuffer) /\ glyphBuffer # <<>> /\ first' = Append(first, set)
      BY DEF Take
<1>3. g \in AnyGlyph /\ set \in AnyGlyph /\ Shows(set) = Shows(g)
  <2>1. g \in AnyGlyph /\ set \in AnyGlyph
        BY <1>1, <1>2, HeadType
  <2>2. set.kind = g.kind /\ set.tok = g.tok
        BY <2>1 DEF AnyGlyph
  <2> QED BY <2>1, <2>2 DEF Shows
<1>4. /\ a \in Nat /\ b \in Nat /\ DOMAIN AllGlyphs = 1 .. a + b
      /\ \A x \in 1 .. a : AllGlyphs[x] = first[x]
      /\ \A x \in 1 .. b : AllGlyphs[a + x] = glyphBuffer[x]
      BY AllIndex
<1>5. /\ g = glyphBuffer[1] /\ b \in Nat \ {0} /\ Tail(glyphBuffer) \in Glyphs
      /\ Len(Tail(glyphBuffer)) = b - 1
      /\ \A x \in 1 .. b - 1 : Tail(glyphBuffer)[x] = glyphBuffer[x + 1]
      BY <1>1, <1>2, HeadTailProperties, LenProperties, EmptySeq DEF Glyphs
<1> HIDE DEF set, g
<1>6. /\ first' \in Glyphs /\ Len(first') = a + 1 /\ first'[a + 1] = set
      /\ \A x \in 1 .. a : first'[x] = first[x]
      BY <1>1, <1>2, <1>3, AppendProperties, LenProperties DEF Glyphs
<1>7. /\ DOMAIN AllGlyphs' = 1 .. (a + 1) + (b - 1)
      /\ \A x \in 1 .. a + 1 : AllGlyphs'[x] = first'[x]
      /\ \A x \in 1 .. b - 1 : AllGlyphs'[(a + 1) + x] = Tail(glyphBuffer)[x]
      BY <1>2, <1>5, <1>6, JoinIndex DEF AllGlyphs
<1> HIDE DEF a, b
<1>8. ASSUME NEW x \in 1 .. a + b
      PROVE  Shows(AllGlyphs'[x]) = Shows(AllGlyphs[x])
  <2>1. CASE x \in 1 .. a
    <3>1. x \in 1 .. a + 1
          BY <1>4, <2>1
    <3> QED BY <1>4, <1>6, <1>7, <2>1, <3>1
  <2>2. CASE x = a + 1
    <3>1. a + 1 \in 1 .. a + 1 /\ 1 \in 1 .. b
          BY <1>4, <1>5
    <3>2. AllGlyphs[a + 1] = g
          BY <1>4, <1>5, <3>1
    <3> QED BY <1>3, <1>6, <1>7, <2>2, <3>1, <3>2
  <2>3. CASE x > a + 1
    <3> DEFINE y == x - (a + 1)
    <3>1. y \in 1 .. b - 1 /\ (a + 1) + y = x /\ y + 1 \in 1 .. b /\ a + (y + 1) = x
          BY <1>4, <1>5, <2>3
    <3> HIDE DEF y
    <3>2. AllGlyphs'[(a + 1) + y] = Tail(glyphBuffer)[y]
          BY <1>7, <3>1
    <3>3. Tail(glyphBuffer)[y] = glyphBuffer[y + 1]
          BY <1>5, <3>1
    <3>4. AllGlyphs[a + (y + 1)] = glyphBuffer[y + 1]
          BY <1>4, <3>1
    <3> QED BY <3>1, <3>2, <3>3, <3>4
  <2> QED BY <1>4, <2>1, <2>2, <2>3
<1>9. (a + 1) + (b - 1) = a + b /\ a + b \in Nat /\ a + b + 1 .. a + b + 0 = {}
      /\ a + b = a + b + 0
      BY <1>4
<1>10. \A i \in DOMAIN AllGlyphs : AllGlyphs[i].tok \in Nat
       BY AllIndex
<1> DEFINE n == a + b
<1>11. /\ n \in Nat /\ DOMAIN AllGlyphs = 1 .. n /\ DOMAIN AllGlyphs' = 1 .. n + 0
       /\ \A x \in n + 1 .. n + 0 : AllGlyphs'[x].kind \notin Text
       /\ \A x \in 1 .. n : Shows(AllGlyphs'[x]) = Shows(AllGlyphs[x])
       BY <1>4, <1>7, <1>8, <1>9
<1> HIDE DEF n
<1> QED BY <1>10, <1>11, AllLabelled

\* Outside runs of words the labels that wait are those of the items that wait
\* for their text.
LEMMA LabelsWait ==
  ASSUME doc' = doc, \A i \in DOMAIN AllGlyphs' : LabelledAt(i)', olType' = OlTypeAt(Here)',
         resumeProcWord' => pc' = "ask" /\ Pending(Here)' = {}, pc' # "words",
         delayedToken' = delayedToken, Pending(Here)' = Pending(Here),
         EndsIn(delayedToken, Pending(Here))
  PROVE  LabelShape'
<1>1. EndsIn(delayedToken, Pending(Here))'
  <2>1. EndsAt(delayedToken', Len(delayedToken'), Pending(Here)')
        BY DEF EndsIn
  <2> QED BY <2>1, LabelsStay DEF EndsIn
<1> QED BY <1>1 DEF LabelShape

\* A tag that is no item and no list.
LEMMA LabelsTag ==
  ASSUME TypeOK, LabelShape, doc' = doc, ~AtEnd, Read, pc \notin {"ask", "words"},
         pc' # "words", resumeProcWord' = resumeProcWord, delayedToken' = delayedToken,
         olType' = olType, Token \in {"c", "e", "li"} \cup OlTags => CellOf(Here) # {},
         \A i \in DOMAIN AllGlyphs' : LabelledAt(i)'
  PROVE  LabelShape'
<1>1. Pending(Here)' = Pending(Here) /\ OlTypeAt(Here)' = OlTypeAt(Here)
      BY LabelReadOn
<1>2. EndsIn(delayedToken, Pending(Here)) /\ ~resumeProcWord /\ olType = OlTypeAt(Here)
      BY DEF LabelShape
<1> QED BY <1>1, <1>2, LabelsWait

LEMMA LabelsTags ==
  ASSUME TypeOK, PlaceInv, LabelShape, doc' = doc,
         \/ Skip \/ BreakTag \/ ImgTag \/ StyleTag \/ FontTag \/ TitleTag
         \/ TableTag \/ CellBegin \/ CellTag \/ CellListTag \/ CellSkip
         \/ CellWord \/ CellEnd \/ TableEnd
  PROVE  LabelShape'
<1> USE DEF modes, attribs, words, reader
<1>1. pc \in Cellular /\ ~AtEnd => CellOf(Here) # {}
      BY DEF PlaceInv, CellKnown, Cellular
<1>2. \A i \in DOMAIN AllGlyphs : LabelledAt(i)
      BY DEF LabelShape
<1>3. CASE Skip \/ StyleTag \/ FontTag \/ TitleTag \/ TableTag \/ CellBegin \/ CellTag
           \/ CellListTag \/ CellSkip \/ CellWord \/ CellEnd
  <2>1. /\ ~AtEnd /\ Read /\ pc \notin {"ask", "words"} /\ pc' # "words"
        /\ resumeProcWord' = resumeProcWord /\ delayedToken' = delayedToken /\ olType' = olType
        /\ first' = first /\ glyphBuffer' = glyphBuffer
        /\ Token \in {"c", "e", "li"} \cup OlTags => pc \in Cellular
        BY <1>3 DEF Skip, StyleTag, FontTag, TitleTag, TableTag, CellBegin, CellTag, CellListTag,
                    CellSkip, CellWord, CellEnd, Tag, InTable, Cellular, OlTags
  <2>2. \A i \in DOMAIN AllGlyphs' : LabelledAt(i)'
        BY <1>2, <2>1, AllStay
  <2> QED BY <1>1, <2>1, <2>2, LabelsTag
<1>4. ASSUME NEW g \in AnyGlyph, g.kind \notin Text, glyphBuffer' = Append(glyphBuffer, g),
             BreakTag \/ ImgTag \/ TableEnd
      PROVE  LabelShape'
  <2>1. /\ ~AtEnd /\ Read /\ pc \notin {"ask", "words"} /\ pc' # "words"
        /\ resumeProcWord' = resumeProcWord /\ delayedToken' = delayedToken /\ olType' = olType
        /\ first' = first /\ Token \notin {"c", "e", "li"} \cup OlTags
        BY <1>4 DEF BreakTag, ImgTag, TableEnd, Tag, InTable, OlTags
  <2>2. \A i \in DOMAIN AllGlyphs' : LabelledAt(i)'
        BY <1>2, <1>4, <2>1, AllGrowOne
  <2> QED BY <2>1, <2>2, LabelsTag
<1>5. /\ Plain(Here, "break") \in AnyGlyph /\ Plain(Here, "break").kind = "break"
      /\ Plain(Here, "img") \in AnyGlyph /\ Plain(Here, "img").kind = "img"
      /\ Plain(Here, "table") \in AnyGlyph /\ Plain(Here, "table").kind = "table"
      BY DocType, PlainType, SimpleIsAny, PlainWritten DEF Kinds, Text
<1>6. CASE BreakTag
  <2>1. glyphBuffer' = Append(glyphBuffer, Plain(Here, "break"))
        BY <1>6 DEF BreakTag
  <2> QED BY <1>4, <1>5, <1>6, <2>1 DEF Text
<1>7. CASE ImgTag
  <2>1. glyphBuffer' = Append(glyphBuffer, Plain(Here, "img"))
        BY <1>7 DEF ImgTag
  <2> QED BY <1>4, <1>5, <1>7, <2>1 DEF Text
<1>8. CASE TableEnd
  <2> DEFINE g == [Plain(Here, "table") EXCEPT !.cells = cell.glyphs]
  <2>1. g \in AnyGlyph /\ g.kind = "table"
        BY <1>5 DEF AnyGlyph, TypeOK
  <2>2. glyphBuffer' = Append(glyphBuffer, g)
        BY <1>8 DEF TableEnd
  <2> HIDE DEF g
  <2> QED BY <1>4, <1>8, <2>1, <2>2 DEF Text
<1> QED BY <1>3, <1>6, <1>7, <1>8

LEMMA LabelsList ==
  ASSUME TypeOK, PlaceInv, LabelShape, doc' = doc, ListTag
  PROVE  LabelShape'
<1> USE DEF modes, attribs, words, reader
<1>1. /\ ~AtEnd /\ Read /\ pc = "tags" /\ pc' = pc /\ first' = first /\ glyphBuffer' = glyphBuffer
      /\ resumeProcWord' = resumeProcWord /\ delayedToken' = delayedToken
      /\ Token \in Lists \cup {"/list"} /\ olType' = OlTypeReset(Token)
      BY DEF ListTag, Tag
<1>2. CellOf(Here) = {}
      BY <1>1 DEF PlaceInv, CellKnown
<1>3. /\ Token \notin {"c", "e", "li"}
      /\ Token \in OlTags => OlTypeReset(Token) = (IF Token = "ola" THEN "OL_LETTER" ELSE "OL_NUM")
      /\ Token \notin OlTags => OlTypeReset(Token) = olType
      BY <1>1 DEF Lists, OlTags, OlTypeReset
<1>4. Pending(Here)' = Pending(Here)
      BY <1>1, <1>3, LabelReadOn
<1>5. olType' = OlTypeAt(Here)'
      BY <1>1, <1>2, <1>3, LabelReadOn DEF LabelShape
<1>6. \A i \in DOMAIN AllGlyphs' : LabelledAt(i)'
      BY <1>1, AllStay DEF LabelShape
<1>7. EndsIn(delayedToken, Pending(Here)) /\ ~resumeProcWord
      BY <1>1 DEF LabelShape
<1> QED BY <1>1, <1>4, <1>5, <1>6, <1>7, LabelsWait

\* An item's label waits behind those of the items before it.
LEMMA LabelsItem ==
  ASSUME TypeOK, PlaceInv, ListKnown, ListsSayTheirType, LabelShape, doc' = doc, ItemTag
  PROVE  LabelShape'
<1> USE DEF modes, attribs, words, reader
<1> DEFINE J == Pending(Here)
           n == Len(delayedToken)
<1>1. /\ ~AtEnd /\ Read /\ pc = "tags" /\ pc' = pc /\ first' = first /\ glyphBuffer' = glyphBuffer
      /\ resumeProcWord' = resumeProcWord /\ delayedToken' = delayedToken \o Label
      /\ Token = "li" /\ olType' = olType
      BY DEF ItemTag, Tag, Queued
<1>2. CellOf(Here) = {}
      BY <1>1 DEF PlaceInv, CellKnown
<1>3. olType' = OlTypeAt(Here)' /\ olType = OlTypeAt(Here)
      BY <1>1, LabelReadOn DEF LabelShape, OlTags
<1>4. \A i \in DOMAIN AllGlyphs' : LabelledAt(i)'
      BY <1>1, AllStay DEF LabelShape
<1>5. EndsIn(delayedToken, J) /\ ~resumeProcWord /\ IsFiniteSet(J) /\ Here \notin J
      /\ Here \in DOMAIN doc /\ doc[Here] = "li"
  <2>1. Here \in Nat \ {0}
        BY <1>1, DocType DEF Here
  <2> QED BY <1>1, <2>1, DocType, PendingNext DEF LabelShape
<1>6. ListAt(Here) \in Lists \cup {"/list"}
      BY <1>1, StyleReadOn
<1>7. CASE ListAt(Here) = "/list"
  <2>1. Label = <<>>
        BY <1>7 DEF Label, ListKnown, ListModeOf, Lists
  <2>2. delayedToken' = delayedToken
        BY <1>1, <2>1, ConcatEmptySeq DEF TypeOK, Glyphs
  <2>3. Pending(Here)' = J
        BY <1>1, <1>2, <1>7, LabelReadOn
  <2> QED BY <1>1, <1>3, <1>4, <1>5, <2>2, <2>3, LabelsWait
<1>8. CASE ListAt(Here) # "/list"
  <2>1. Label = <<Plain(Here, LabelOf(Here))>>
    <3>1. CASE ListAt(Here) = "ul"
          BY <3>1 DEF Label, ListKnown, ListModeOf, LabelOf
    <3>2. CASE ListAt(Here) # "ul"
      <4>1. listMode = "LM_ORDER" /\ ListModeOf(ListAt(Here)) = "LM_ORDER"
            BY <1>6, <1>8, <3>2 DEF ListKnown, ListModeOf
      <4>2. olType = "OL_LETTER" <=> ListAt(Here) = "ola"
            BY <1>2, <1>3, <1>5, <4>1 DEF ListsSayTheirType
      <4>3. olType \in {"OL_NUM", "OL_LETTER"}
            BY DEF TypeOK, OlTypes
      <4>4. CASE ListAt(Here) = "ola"
            BY <4>1, <4>2, <4>4 DEF Label, LabelOf
      <4>5. CASE ListAt(Here) # "ola"
            BY <3>2, <4>1, <4>2, <4>3, <4>5 DEF Label, LabelOf, NumberLabel
      <4> QED BY <4>4, <4>5
    <3> QED BY <3>1, <3>2
  <2> DEFINE l == Plain(Here, LabelOf(Here))
  <2>2. l \in AnyGlyph /\ Shows(l) = l
    <3>1. LabelOf(Here) \in Kinds
          BY DEF LabelOf, Kinds, Labels
    <3>2. l \in AnyGlyph
          BY <3>1, DocType, PlainType, SimpleIsAny
    <3>3. Shows(l) = l
          BY DEF Shows, Plain, Glyph
    <3> QED BY <3>2, <3>3
  <2>3. Pending(Here)' = J \cup {Here}
        BY <1>1, <1>2, <1>8, LabelReadOn
  <2>4. delayedToken \in Seq(AnyGlyph)
        BY DEF TypeOK, Glyphs
  <2> HIDE DEF l, J
  <2>5. delayedToken' = Append(delayedToken, l)
        BY <1>1, <2>1, <2>2, <2>4, AppendIsConcat DEF l
  <2>6. /\ n \in Nat /\ Len(delayedToken') = n + 1 /\ delayedToken'[n + 1] = l
        /\ \A x \in 1 .. n : delayedToken'[x] = delayedToken[x]
        BY <2>2, <2>4, <2>5, AppendProperties, LenProperties
  <2> HIDE DEF n
  <2>7. EndsAt(delayedToken, n, J)
        BY <1>5 DEF EndsIn, n
  <2>8. EndsAt(delayedToken', n + 1, J \cup {Here})
    <3>1. Shows(delayedToken'[n + 1]) = Plain(Here, LabelOf(Here))
          BY <2>2, <2>6 DEF l
    <3>2. \A x \in 1 .. n : Shows(delayedToken[x]) = Shows(delayedToken'[x])
          BY <2>6
    <3> QED BY <1>5, <2>6, <2>7, <3>1, <3>2, OneMoreEnds
  <2>9. EndsIn(delayedToken, Pending(Here))'
        BY <2>3, <2>6, <2>8, LabelsStay DEF EndsIn
  <2> QED BY <1>1, <1>3, <1>4, <1>5, <2>9 DEF LabelShape
<1> QED BY <1>7, <1>8

\* No token is read.
LEMMA LabelsStand ==
  ASSUME TypeOK, LabelShape, doc' = doc, off' = off
  PROVE  /\ Here' = Here /\ Pending(Here)' = Pending(Here) /\ OlTypeAt(Here)' = OlTypeAt(Here)
         /\ (AtEnd' <=> AtEnd) /\ Token' = Token /\ IsFiniteSet(Pending(Here)) /\ Here \in Nat
<1>1. Here' = Here /\ (AtEnd' <=> AtEnd) /\ Token' = Token
      BY DEF Here, AtEnd, Token
<1> QED BY <1>1, LabelsStay, PendingFinite, DocType

\* A run of words goes on behind a cut, where no item waits.
LEMMA LabelsFill ==
  ASSUME TypeOK, LabelShape, doc' = doc, Fill
  PROVE  LabelShape'
<1> USE DEF modes, attribs, words, reader
<1>1. /\ off' = off /\ pc = "ask" /\ first' = first /\ glyphBuffer' = glyphBuffer
      /\ delayedToken' = delayedToken /\ olType' = olType /\ ~resumeProcWord'
      /\ pc' = IF resumeProcWord THEN "words" ELSE "tags"
      BY DEF Fill, TypeOK
<1>2. \A i \in DOMAIN AllGlyphs' : LabelledAt(i)'
      BY <1>1, AllStay DEF LabelShape
<1>3. olType' = OlTypeAt(Here)' /\ Pending(Here)' = Pending(Here)
      BY <1>1, LabelsStand DEF LabelShape
<1>4. CASE resumeProcWord
  <2>1. Pending(Here)' = {}
        BY <1>3, <1>4 DEF LabelShape
  <2>2. Len(AllGlyphs') \in Nat
        BY <1>1, AllIndex, JoinIndex DEF AllGlyphs
  <2>3. EndsAt(AllGlyphs', Len(AllGlyphs'), {})
        BY <2>2, NoneEnds
  <2>4. EndsIn(AllGlyphs, Pending(Here))'
        BY <2>1, <2>3, LabelsStay DEF EndsIn
  <2> QED BY <1>1, <1>2, <1>3, <1>4, <2>1, <2>4 DEF LabelShape
<1>5. CASE ~resumeProcWord
      BY <1>1, <1>2, <1>3, <1>5, LabelsWait DEF LabelShape
<1> QED BY <1>4, <1>5

\* Steps behind which no run of words is read, and none reads.
LEMMA LabelsIdle ==
  ASSUME TypeOK, LabelShape, doc' = doc, off' = off, olType' = olType,
         delayedToken' = delayedToken, resumeProcWord' = resumeProcWord,
         resumeProcWord => pc' = "ask", pc' # "words",
         pc = "words" => AtEnd \/ Token \notin Chars,
         \A i \in DOMAIN AllGlyphs' : LabelledAt(i)'
  PROVE  LabelShape'
<1>1. /\ olType' = OlTypeAt(Here)' /\ Pending(Here)' = Pending(Here)
      /\ resumeProcWord => Pending(Here) = {}
      BY LabelsStand DEF LabelShape
<1>2. EndsIn(delayedToken, Pending(Here))
  <2>1. CASE pc # "words"
        BY <2>1 DEF LabelShape
  <2>2. CASE pc = "words"
    <3>1. Pending(Here) = {}
          BY <2>2 DEF LabelShape, Text, Chars
    <3>2. Len(delayedToken) \in Nat
          BY LenProperties DEF TypeOK, Glyphs
    <3>3. EndsAt(delayedToken, Len(delayedToken), {})
          BY <3>2, NoneEnds
    <3> QED BY <3>1, <3>3 DEF EndsIn
  <2> QED BY <2>1, <2>2
<1> QED BY <1>1, <1>2, LabelsWait

LEMMA LabelsWords ==
  ASSUME TypeInv, FontInv, LabelShape, doc' = doc, BeginWords \/ Word
  PROVE  LabelShape'
<1> USE DEF modes, attribs, words, reader
<1> DEFINE J == Pending(Here)
<1>1. TypeOK /\ delayedToken \in Glyphs /\ AllGlyphs \in Glyphs
      BY AllIndex DEF TypeInv, TypeOK
<1>2. IsFiniteSet(J)
      BY <1>1, DocType, PendingFinite
<1>3. CASE BeginWords
  <2>1. /\ pc = "tags" /\ pc' = "words" /\ ~AtEnd /\ Token \in {"c", "e"} /\ off' = off
        /\ first' = first /\ glyphBuffer' = glyphBuffer \o delayedToken
        /\ olType' = olType /\ resumeProcWord' = resumeProcWord
        BY <1>3 DEF BeginWords
  <2>2. Pending(Here)' = J /\ olType' = OlTypeAt(Here)' /\ ~AtEnd' /\ Token' = Token
        BY <1>1, <2>1, LabelsStand DEF LabelShape
  <2>3. ~HasKind(delayedToken, Text)
        BY DEF FontInv, GlyphsWritten, HasKind, Labels, Text
  <2>4. \A i \in DOMAIN AllGlyphs' : LabelledAt(i)'
        BY <1>1, <2>1, <2>3, AllGrow DEF LabelShape
  <2>5. EndsIn(delayedToken, J) /\ ~resumeProcWord
        BY <2>1 DEF LabelShape
  <2>6. AllGlyphs' = AllGlyphs \o delayedToken
    <3>1. first \in Seq(AnyGlyph) /\ glyphBuffer \in Seq(AnyGlyph)
          /\ delayedToken \in Seq(AnyGlyph)
          BY <1>1 DEF TypeOK, Glyphs
    <3>2. first \o (glyphBuffer \o delayedToken) = (first \o glyphBuffer) \o delayedToken
          BY <3>1, JoinThree
    <3> QED BY <2>1, <3>2 DEF AllGlyphs
  <2>7. EndsIn(AllGlyphs', J)
        BY <1>1, <1>2, <2>5, <2>6, JoinEnds
  <2>8. EndsIn(AllGlyphs, Pending(Here))'
        BY <2>2, <2>7, LabelsStay DEF EndsIn
  <2> QED BY <2>1, <2>2, <2>4, <2>5, <2>8 DEF LabelShape
<1>4. CASE Word
  <2> DEFINE g == Glyph(Here, Shown(Token), glyphAttrib, Default)
             n == Len(AllGlyphs)
  <2>1. /\ pc = "words" /\ ~AtEnd /\ Token \in Chars /\ Read /\ first' = first
        /\ glyphBuffer' = (IF headerMode THEN glyphBuffer ELSE Append(glyphBuffer, g))
        /\ olType' = olType /\ delayedToken' = delayedToken
        /\ pc' = (IF resumeProcWord' THEN "ask" ELSE "words")
        BY <1>4 DEF Word, InTitle
  <2>2. g \in AnyGlyph /\ g.tok = Here
    <3>1. Shown(Token) \in Kinds
          BY <2>1 DEF Shown, Chars, Kinds
    <3> QED BY <1>1, <3>1, WordType, SimpleIsAny, DefaultType, DocType DEF TypeOK, Glyph
  <2>3. EndsIn(AllGlyphs, J) /\ (Token \in {"b", "nl"} => J = {})
        BY <2>1 DEF LabelShape
  <2>4. CellOf(Here) = {}
        BY <2>1 DEF FontInv, CellKnown
  <2>5. Pending(Here)' = {} /\ olType' = OlTypeAt(Here)'
        BY <1>1, <2>1, <2>3, <2>4, LabelReadOn DEF LabelShape, OlTags, Text, Chars
  <2>6. \A i \in DOMAIN AllGlyphs' : LabelledAt(i)'
    <3>1. CASE headerMode
          BY <1>1, <2>1, <3>1, AllStay DEF LabelShape
    <3>2. CASE ~headerMode
      <4>1. first \in Seq(AnyGlyph) /\ glyphBuffer \in Seq(AnyGlyph)
            BY <1>1 DEF TypeOK, Glyphs
      <4> HIDE DEF g, J
      <4>2. AllGlyphs' = Append(AllGlyphs, g)
        <5>1. <<g>> \in Seq(AnyGlyph) /\ first \o glyphBuffer \in Seq(AnyGlyph)
              BY <2>2, <4>1, <1>1 DEF AllGlyphs, Glyphs
        <5>2. first \o (glyphBuffer \o <<g>>) = (first \o glyphBuffer) \o <<g>>
              BY <4>1, <5>1, JoinThree
        <5>3. glyphBuffer' = glyphBuffer \o <<g>>
              BY <2>1, <2>2, <3>2, <4>1, AppendIsConcat
        <5>4. Append(first \o glyphBuffer, g) = (first \o glyphBuffer) \o <<g>>
              BY <2>2, <5>1, AppendIsConcat
        <5> QED BY <2>1, <5>2, <5>3, <5>4 DEF AllGlyphs
      <4>3. /\ n \in Nat /\ DOMAIN AllGlyphs = 1 .. n /\ DOMAIN AllGlyphs' = 1 .. n + 1
            /\ AllGlyphs'[n + 1] = g /\ \A x \in 1 .. n : AllGlyphs'[x] = AllGlyphs[x]
            BY <1>1, <2>2, <4>2, AppendProperties, LenProperties DEF Glyphs
      <4>4. EndsAt(AllGlyphs, n, J)
            BY <2>3 DEF EndsIn
      <4> HIDE DEF n
      <4>5. ASSUME NEW i \in 1 .. n, AllGlyphs[i].kind \in Text
            PROVE  EndsAt(AllGlyphs', i - 1, Pending(AllGlyphs[i].tok))
        <5>1. AllGlyphs[i].tok \in Nat /\ i - 1 \in Nat /\ 1 .. i - 1 \subseteq 1 .. n
              BY <1>1, <4>3, AllIndex
        <5>2. \A x \in 1 .. i - 1 : Shows(AllGlyphs[x]) = Shows(AllGlyphs'[x])
              BY <4>3, <5>1
        <5>3. EndsAt(AllGlyphs, i - 1, Pending(AllGlyphs[i].tok))
              BY <4>3, <4>5 DEF LabelShape, LabelledAt
        <5>4. IsFiniteSet(Pending(AllGlyphs[i].tok))
              BY <5>1, PendingFinite
        <5> QED BY <5>1, <5>2, <5>3, <5>4, SameEnds
      <4>6. EndsAt(AllGlyphs', n, J)
        <5>1. \A x \in 1 .. n : Shows(AllGlyphs[x]) = Shows(AllGlyphs'[x])
              BY <4>3
        <5> QED BY <1>2, <4>3, <4>4, <5>1, SameEnds
      <4>7. ASSUME NEW i \in 1 .. n + 1, AllGlyphs'[i].kind \in Text
            PROVE  EndsAt(AllGlyphs', i - 1, Pending(AllGlyphs'[i].tok))
        <5>1. CASE i \in 1 .. n
              BY <4>3, <4>5, <4>7, <5>1
        <5>2. CASE i = n + 1
          <6>1. i - 1 = n /\ Pending(AllGlyphs'[i].tok) = J
                BY <2>2, <4>3, <5>2 DEF J
          <6> QED BY <4>6, <6>1
        <5> QED BY <4>3, <5>1, <5>2
      <4> QED BY <4>3, <4>7, LabelsStay DEF LabelledAt
    <3> QED BY <3>1, <3>2
  <2>7. AllGlyphs' \in Glyphs /\ delayedToken' \in Glyphs
    <3>1. glyphBuffer' \in Glyphs
          BY <1>1, <2>1, <2>2, BufferGrows DEF TypeOK
    <3> QED BY <1>1, <2>1, <3>1, JoinIndex DEF AllGlyphs, TypeOK
  <2>8. Len(AllGlyphs') \in Nat /\ Len(delayedToken') \in Nat
        BY <2>7, LenProperties DEF Glyphs
  <2>9. EndsAt(AllGlyphs', Len(AllGlyphs'), {}) /\ EndsAt(delayedToken', Len(delayedToken'), {})
        BY <2>8, NoneEnds
  <2>10. EndsIn(AllGlyphs, Pending(Here))' /\ EndsIn(delayedToken, Pending(Here))'
         BY <2>5, <2>9, LabelsStay DEF EndsIn
  <2> QED BY <2>1, <2>5, <2>6, <2>10 DEF LabelShape
<1> QED BY <1>3, <1>4

LEMMA LabelsStep ==
  ASSUME TypeInv, FontInv, ListKnown, ListsSayTheirType, LabelShape, doc' = doc, [Next]_vars,
         back.n = 0, \A p \in 1 .. MaxPages : ~RestoreDocState(p)
  PROVE  LabelShape'
<1> USE DEF modes, attribs, words, reader
<1>1. TypeOK /\ PlaceInv /\ \A i \in DOMAIN AllGlyphs : LabelledAt(i)
      BY DEF TypeInv, FontInv, PlaceInv, LabelShape
<1>2. CASE EndWords \/ CellWords \/ CellWordsEnd \/ TurnPage
  <2>1. /\ off' = off /\ olType' = olType /\ delayedToken' = delayedToken
        /\ resumeProcWord' = resumeProcWord /\ (resumeProcWord => pc' = "ask") /\ pc' # "words"
        /\ (pc = "words" => Token \notin Chars)
        /\ first' = first /\ glyphBuffer' = glyphBuffer
        BY <1>2 DEF EndWords, CellWords, CellWordsEnd, TurnPage, LabelShape
  <2>2. \A i \in DOMAIN AllGlyphs' : LabelledAt(i)'
        BY <1>1, <2>1, AllStay
  <2> QED BY <1>1, <2>1, <2>2, LabelsIdle
<1>3. CASE UNCHANGED vars
  <2>1. /\ off' = off /\ olType' = olType /\ delayedToken' = delayedToken /\ pc' = pc
        /\ resumeProcWord' = resumeProcWord /\ first' = first /\ glyphBuffer' = glyphBuffer
        BY <1>3 DEF vars
  <2>2. AllGlyphs' = AllGlyphs
        BY <2>1 DEF AllGlyphs
  <2>3. \A i \in DOMAIN AllGlyphs' : LabelledAt(i)'
        BY <1>1, <2>1, AllStay
  <2>4. /\ Pending(Here)' = Pending(Here) /\ OlTypeAt(Here)' = OlTypeAt(Here)
        /\ (AtEnd' <=> AtEnd) /\ Token' = Token
        BY <1>1, <2>1, LabelsStand
  <2>5. /\ EndsIn(AllGlyphs, Pending(Here))' <=> EndsIn(AllGlyphs, Pending(Here))
        /\ EndsIn(delayedToken, Pending(Here))' <=> EndsIn(delayedToken, Pending(Here))
        BY <2>1, <2>2, <2>4, LabelsStay DEF EndsIn
  <2> QED BY <2>1, <2>3, <2>4, <2>5 DEF LabelShape
<1>4. CASE AtEof
  <2>1. /\ off' = off /\ olType' = olType /\ delayedToken' = delayedToken /\ first' = first
        /\ resumeProcWord' = resumeProcWord /\ pc' = "ask" /\ AtEnd
        /\ glyphBuffer' = Append(glyphBuffer, Eof)
        BY <1>4 DEF AtEof
  <2>2. Eof \in AnyGlyph /\ Eof.kind = "eof"
        BY <1>1, DocType, PlainType, SimpleIsAny, PlainWritten DEF Eof, Kinds, Text
  <2>3. \A i \in DOMAIN AllGlyphs' : LabelledAt(i)'
        BY <1>1, <2>1, <2>2, AllGrowOne DEF Text
  <2> QED BY <1>1, <2>1, <2>3, LabelsIdle
<1>5. CASE Take
  <2>1. /\ off' = off /\ olType' = olType /\ delayedToken' = delayedToken /\ pc' = "ask"
        /\ resumeProcWord' = resumeProcWord /\ pc = "ask"
        BY <1>5 DEF Take
  <2>2. \A i \in DOMAIN AllGlyphs' : LabelledAt(i)'
        BY <1>1, <1>5, AllTaken
  <2> QED BY <1>1, <2>1, <2>2, LabelsIdle
<1>6. Fill => LabelShape'
      BY <1>1, LabelsFill
<1>7. BeginWords \/ Word => LabelShape'
      BY LabelsWords
<1>8. ListTag => LabelShape'
      BY <1>1, LabelsList
<1>9. ItemTag => LabelShape'
      BY <1>1, LabelsItem
<1>10. ASSUME \/ Skip \/ BreakTag \/ ImgTag \/ StyleTag \/ FontTag \/ TitleTag
              \/ TableTag \/ CellBegin \/ CellTag \/ CellListTag \/ CellSkip
              \/ CellWord \/ CellEnd \/ TableEnd
       PROVE  LabelShape'
       BY <1>1, <1>10, LabelsTags
<1> QED BY <1>2, <1>3, <1>4, <1>5, <1>6, <1>7, <1>8, <1>9, <1>10 DEF Next, Parser

\* What is taken last is labelled as it was in the buffer.
LEMMA LabelledTaken ==
  ASSUME TypeOK, AllWritten(first), \A i \in DOMAIN AllGlyphs : LabelledAt(i)
  PROVE  Labelled
<1> DEFINE n == Len(first)
           g == first[n]
<1> SUFFICES ASSUME first # <<>>, g.kind \in Text
    PROVE  Before(first, Cardinality(ItemsBegunBy(g.tok))) = LabelsOf(ItemsBegunBy(g.tok))
    BY DEF Labelled, LatestIsText, IsText, Latest, LabelsOf
<1>1. /\ n \in Nat \ {0} /\ DOMAIN first = 1 .. n
      /\ n \in DOMAIN AllGlyphs /\ AllGlyphs[n] = g
      /\ \A x \in 1 .. n : AllGlyphs[x] = first[x]
  <2>1. n \in Nat \ {0} /\ DOMAIN first = 1 .. n
        BY LenProperties, EmptySeq DEF TypeOK, Glyphs
  <2> HIDE DEF n
  <2> QED BY <2>1, AllIndex DEF n
<1>2. g.tok \in DOMAIN doc /\ CellOf(g.tok) = {}
  <2>1. Written(g)
        BY <1>1 DEF AllWritten
  <2> HIDE DEF g
  <2> QED BY <2>1 DEF Written
<1> HIDE DEF g
<1>3. ItemsBegunBy(g.tok) = Pending(g.tok)
      BY <1>2 DEF ItemsBegunBy, Pending
<1> DEFINE J == Pending(g.tok)
           c == Cardinality(J)
<1>4. IsFiniteSet(J) /\ c \in Nat
  <2>1. g.tok \in Nat
        BY <1>2, DocType
  <2>2. IsFiniteSet(J)
        BY <2>1, PendingFinite
  <2> HIDE DEF J
  <2> QED BY <2>2, FS_CardinalityType
<1>5. EndsAt(AllGlyphs, n - 1, J)
      BY <1>1 DEF LabelledAt
<1>6. c <= n - 1 /\ {Shows(AllGlyphs[x]) : x \in (n - 1) - c + 1 .. n - 1} = LabelsOf(J)
      BY <1>5 DEF EndsAt
<1> HIDE DEF n, c, J
<1>7. {k \in 1 .. n - 1 : k >= n - c} = (n - 1) - c + 1 .. n - 1
      /\ (n - 1) - c + 1 .. n - 1 \subseteq 1 .. n
      BY <1>1, <1>4, <1>6
<1>8. Before(first, c) = {Shows(first[x]) : x \in (n - 1) - c + 1 .. n - 1}
      BY <1>7 DEF Before, Shows, n
<1>9. {Shows(first[x]) : x \in (n - 1) - c + 1 .. n - 1} =
        {Shows(AllGlyphs[x]) : x \in (n - 1) - c + 1 .. n - 1}
      BY <1>1, <1>7
<1> QED BY <1>3, <1>6, <1>8, <1>9 DEF J, c

LEMMA LabelStart == Init => LabelInv
<1> SUFFICES ASSUME Init PROVE LabelInv
    OBVIOUS
<1>1. off = 0 /\ Here = 1 /\ 1 .. Here - 1 = {}
      BY DEF Init, Here
<1>2. Pending(Here) = {}
      BY <1>1 DEF Pending
<1>3. OlTypeAt(Here) = "OL_NUM"
      BY <1>1 DEF OlTypeAt, LastOutside, Outside
<1>4. /\ first = <<>> /\ glyphBuffer = <<>> /\ delayedToken = <<>>
      /\ pc = "ask" /\ ~resumeProcWord /\ olType = "OL_NUM"
      BY DEF Init
<1>5. DOMAIN AllGlyphs = {}
  <2>1. TypeOK
        BY TypeStart DEF TypeInv
  <2>2. DOMAIN AllGlyphs = 1 .. 0
        BY <1>4, <2>1, AllIndex
  <2> QED BY <2>2
<1>6. EndsIn(delayedToken, {})
      BY <1>4, NoneEnds DEF EndsIn
<1>7. LabelShape
      BY <1>2, <1>3, <1>4, <1>5, <1>6 DEF LabelShape
<1>8. Labelled
      BY <1>4 DEF Labelled, LatestIsText
<1> QED BY <1>7, <1>8 DEF LabelInv

LEMMA LabelStep ==
  ASSUME TypeInv, TypeInv', FontInv, FontInv', StyleInv, LabelInv, [Next]_vars
  PROVE  LabelInv'
<1>1. doc' = doc /\ TypeOK
      BY DocStays DEF TypeInv
<1>2. SUFFICES ASSUME ListsSayTheirType
      PROVE  Labelled' /\ (back'.n = 0 => LabelShape')
      BY <1>1, LabelsStay DEF LabelInv
<1>3. Labelled /\ (back.n = 0 => LabelShape)
      BY <1>2 DEF LabelInv
<1>4. back'.n = 0 => LabelShape'
  <2> SUFFICES ASSUME back'.n = 0 PROVE LabelShape'
      OBVIOUS
  <2>1. back.n = 0 /\ \A p \in 1 .. MaxPages : ~RestoreDocState(p)
        BY <1>1, BackGrows
  <2>2. ListKnown
        BY <2>1 DEF StyleInv
  <2> QED BY <1>1, <1>2, <1>3, <2>1, <2>2, LabelsStep
<1>5. CASE back'.n = 0
  <2>1. (TypeOK /\ AllWritten(first) /\ \A i \in DOMAIN AllGlyphs : LabelledAt(i))'
        BY <1>4, <1>5 DEF TypeInv, FontInv, GlyphsWritten, LabelShape
  <2>2. Labelled'
        BY <2>1, LabelledTaken, PTL
  <2> QED BY <1>4, <2>2
<1>6. CASE back'.n # 0
  <2>1. first' = first
    <3>1. Take => back' = back
          BY DEF Take, reader
    <3> QED BY <1>6, <3>1, FirstStays
  <2>2. /\ \A k : ItemsBegunBy(k)' = ItemsBegunBy(k)
        /\ \A J : LabelsOf(J)' = LabelsOf(J)
        BY <1>1, LabelsStay
  <2>3. Labelled <=> (LatestIsText(first) =>
           LET J == ItemsBegunBy(Latest(first).tok)
           IN  Before(first, Cardinality(J)) = LabelsOf(J))
        BY DEF Labelled, LabelsOf
  <2>4. Labelled' <=> (LatestIsText(first) =>
           LET J == ItemsBegunBy(Latest(first).tok)
           IN  Before(first, Cardinality(J)) = LabelsOf(J))'
        BY DEF Labelled, LabelsOf
  <2>5. Latest(first)' = Latest(first) /\ (LatestIsText(first)' <=> LatestIsText(first))
        /\ \A n : Before(first, n)' = Before(first, n)
        BY <2>1 DEF Latest, LatestIsText, IsText, Before
  <2>6. Labelled'
        BY <1>3, <2>1, <2>2, <2>3, <2>4, <2>5
  <2> QED BY <1>6, <2>6
<1> QED BY <1>5, <1>6

\* In a first reading the text of a list item has the item's label before it,
\* and those of the items before it that have no text (delayedToken), if olType
\* is what the lists of the document ask for: <ol type="1"> leaves it as it was.
THEOREM ItemsAreLabelled == Spec => [](ListsSayTheirType => Labelled)
<1>1. Init => LabelInv
      BY LabelStart
<1>2. TypeInv /\ TypeInv' /\ FontInv /\ FontInv' /\ StyleInv /\ LabelInv /\ [Next]_vars
        => LabelInv'
      BY LabelStep
<1>3. LabelInv => (ListsSayTheirType => Labelled)
      BY DEF LabelInv
<1> QED BY <1>1, <1>2, <1>3, TypeAlways, FontAlways, StyleAlways, PTL DEF Spec
=============================================================================
