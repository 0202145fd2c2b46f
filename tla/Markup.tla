------------------------------- MODULE Markup -------------------------------
(***************************************************************************)
(* lib/DocParser.cpp: how tags become glyphs, labels, attributes and table *)
(* cells (fillGlyphStream, procLabel, procWord, ParseTable, getTD), and    *)
(* what of the parser's state a page file brings back (ShadowDocState,     *)
(* RestoreDocState).  Module GlyphStream has the batches, this one the     *)
(* modes the tags switch.                                                  *)
(*                                                                         *)
(* A token is a character "c", a blank "b", an entity "e" (&lt;), a        *)
(* newline in the file "nl", or a tag:                                     *)
(*   "br"  <br>, <p>, <div>, </div>: a line break at once                  *)
(*   "img" an image    "x" a tag that is ignored                           *)
(*   "ol" <ol>, "ol1" <ol type="1">, "ola" <ol type="a">, "ul", "/list"    *)
(*   "li" a list item, whose label is delayed until its text; in a numbered*)
(*      list one with a value, without which it would have no label        *)
(*   "ind", "noi" <p style="text-indent: ...; text-align: ...">, indented  *)
(*      and centred, or neither                                            *)
(*   "font" <myfont size=...>, "/font", "title", "/title"                  *)
(*   "table", "td", "/td", "/table"                                        *)
(* A client takes glyphs one by one, turns pages where it likes and may    *)
(* look back to an earlier page.                                           *)
(***************************************************************************)
EXTENDS Naturals, Sequences, SequencesExt

CONSTANTS
  Docs,                     \* documents: sequences of tokens
  WordMax,                  \* PROC_WORD_MAX
  LineLen,                  \* bound: glyphs of a full line
  MaxPages,                 \* bound: pages of the first reading
  MaxBack                   \* bound: looks back

Text  == {"c", "b", "e"}
Chars == Text \cup {"nl"}
Lists == {"ol", "ol1", "ola", "ul"}
Words == Chars \cup Lists \cup
  {"br", "img", "x", "/list", "li", "ind", "noi", "font", "/font", "title", "/title",
   "table", "td", "/td", "/table"}

ASSUME MarkupAssumption ==
  /\ Docs \subseteq Seq(Words)
  /\ WordMax \in Nat /\ LineLen \in Nat \ {0} /\ MaxPages \in Nat /\ MaxBack \in Nat

\* wvWare writes the title, and closes it, before anything a page shows.
ASSUME TitleAssumption ==
  \A d \in Docs : \A k \in DOMAIN d :
    /\ d[k] = "title"  => /\ \A j \in 1 .. k - 1 : d[j] \in {"x", "b", "nl"}
                         /\ \E j \in k + 1 .. Len(d) : d[j] = "/title"
    /\ d[k] = "/title" => \A j \in 1 .. k - 1 : d[j] \in Chars \cup {"x", "title"}

VARIABLES
  doc, off,                 \* the document, and how many of its tokens are read
  glyphBuffer,
  listMode, olType,         \* LM_NONE, LM_ORDER, LM_UNORDER; OL_NUM, OL_LETTER
  headerMode,               \* inside <title>
  delayedToken,             \* labels that wait for the text of their item
  resumeProcWord, countProcWord,
  glyphAttrib,              \* size of the font in force
  lineAttrib,               \* indent and alignment of the paragraph
  curLine,                  \* what the layout's current line has of them, and
                            \*   how many glyphs
  cell,                     \* the table being parsed: [glyphs, delayed, font]
  pc,                       \* "ask": GetNextGlyph returned; "tags", "words": the
                            \*   loops of fillGlyphStream; "table", "td", "cell",
                            \*   "cellwords": the same for a table
  first,                    \* history: glyphs taken in the first reading
  shown,                    \* glyphs taken since the client last looked back
  pages,                    \* what the page files hold, and where in "first"
                            \*   each page begins
  back                      \* [n, page, same]: looks back so far, the page that
                            \*   is shown again, and whether the state the file
                            \*   does not hold happened to be the same

modes   == <<listMode, olType, headerMode>>
attribs == <<glyphAttrib, lineAttrib, curLine>>
words   == <<resumeProcWord, countProcWord>>
reader  == <<first, shown, pages, back>>
vars    == <<doc, off, glyphBuffer, modes, delayedToken, words, attribs, cell, pc, reader>>

NoCell == [glyphs |-> <<>>, delayed |-> <<>>, font |-> 0]

\* Attrib_Line, and a new Line: Dup takes the alignment of the line before,
\* but the constructor does not use it.
Style(indent, align) == [indent |-> indent, align |-> align]
Default   == Style(0, 0)
FreshLine == [style |-> Default, n |-> 0]

\* A glyph: the token it comes from, what it shows, its font, the style of
\* the line it is set in, and for a table the glyphs of its cells.
Glyph(k, kind, font, line) ==
  [tok |-> k, kind |-> kind, font |-> font, line |-> line, cells |-> <<>>]
Plain(k, kind) == Glyph(k, kind, 0, Default)
Eof == Plain(Len(doc) + 1, "eof")

\* ShadowDocState.  "hidden" is what it does not store.
Hidden == [listMode |-> listMode, olType |-> olType, headerMode |-> headerMode,
           delayed |-> delayedToken, resume |-> resumeProcWord]
ShadowDocState(buf, from) ==
  [offset |-> off, buffer |-> buf, glyphAttrib |-> glyphAttrib,
   lineAttrib |-> lineAttrib, from |-> from, hidden |-> Hidden]

Init ==
  /\ doc \in Docs /\ off = 0 /\ glyphBuffer = <<>>
  /\ listMode = "LM_NONE" /\ olType = "OL_NUM" /\ headerMode = FALSE
  /\ delayedToken = <<>> /\ resumeProcWord = FALSE /\ countProcWord = 0
  /\ glyphAttrib = 0 /\ lineAttrib = Default /\ curLine = FreshLine
  /\ cell = NoCell /\ pc = "ask"
  /\ first = <<>> /\ shown = <<>>
  /\ pages = <<ShadowDocState(<<>>, 0)>>
  /\ back = [n |-> 0, page |-> 0, same |-> TRUE]

-----------------------------------------------------------------------------
(* fillGlyphStream                                                          *)

AtEnd == off = Len(doc)
Token == doc[off + 1]                    \* the token at hand
Here  == off + 1
Read  == off' = off + 1

CountKept  == countProcWord                                                  \* mutant
FreshCount == 0

\* Nothing is buffered: parse on.  A run of words that was cut goes on as
\* words; the end throws Except_EOF out of any loop, and a table it cuts is lost.
Fill ==
  /\ pc = "ask" /\ glyphBuffer = <<>> /\ ~AtEnd
  /\ IF resumeProcWord
     THEN pc' = "words" /\ resumeProcWord' = FALSE /\ countProcWord' = FreshCount
     ELSE pc' = "tags" /\ UNCHANGED words
  /\ UNCHANGED <<doc, off, glyphBuffer, modes, delayedToken, attribs, cell, reader>>

AtEof ==
  /\ AtEnd /\ (pc = "ask" => glyphBuffer = <<>>)
  /\ glyphBuffer' = Append(glyphBuffer, Eof) /\ pc' = "ask" /\ cell' = NoCell
  /\ UNCHANGED <<doc, off, modes, delayedToken, words, attribs, reader>>

\* A tag of the tag loop, whose effect is up to the caller.
Tag(kinds) == pc = "tags" /\ ~AtEnd /\ Token \in kinds /\ Read

\* Blanks and newlines between tags are skipped, ignored tags have no effect.
Skip ==
  /\ Tag({"b", "nl", "x"})
  /\ UNCHANGED <<doc, glyphBuffer, modes, delayedToken, words, attribs, cell, pc, reader>>

\* procLabel returns false: the batch ends, labels stay delayed.
BreakTag ==
  /\ Tag({"br"})
  /\ glyphBuffer' = Append(glyphBuffer, Plain(Here, "break")) /\ pc' = "ask"
  /\ UNCHANGED <<doc, modes, delayedToken, words, attribs, cell, reader>>

ImgTag ==
  /\ Tag({"img"})
  /\ glyphBuffer' = Append(glyphBuffer, Plain(Here, "img"))
  /\ UNCHANGED <<doc, modes, delayedToken, words, attribs, cell, pc, reader>>

NumberLabel == <<Plain(Here, "number")>>
Label ==
  CASE listMode = "LM_ORDER" /\ olType = "OL_NUM"    -> NumberLabel
    [] listMode = "LM_ORDER" /\ olType = "OL_LETTER" -> <<Plain(Here, "letter")>>
    [] listMode = "LM_UNORDER" -> <<Plain(Here, "bullet")>>
    [] OTHER -> <<>>

QueuedLast(label) == label                                                   \* mutant

\* delayedToken.push: items without text leave their labels to the next.
Queued(label) == delayedToken \o label

ItemTag ==
  /\ Tag({"li"})
  /\ delayedToken' = Queued(Label)
  /\ UNCHANGED <<doc, glyphBuffer, modes, words, attribs, cell, pc, reader>>

\* A type that is not a letter leaves olType as the last list had it.
OlTypeReset(t) == IF t = "ola" THEN "OL_LETTER" ELSE IF t = "ol" THEN "OL_NUM" ELSE olType

ListModeOf(t) ==
  IF t = "ul" THEN "LM_UNORDER" ELSE IF t \in Lists THEN "LM_ORDER" ELSE "LM_NONE"

ListTag ==
  /\ Tag(Lists \cup {"/list"})
  /\ listMode' = ListModeOf(Token) /\ olType' = OlTypeReset(Token)
  /\ UNCHANGED <<doc, glyphBuffer, headerMode, delayedToken, words, attribs, cell, pc, reader>>

StyledInLists(st) == st                                                      \* mutant

\* getStyle: inside a list the indent of the style does not count.
Styled(st) == IF listMode = "LM_NONE" THEN st ELSE [st EXCEPT !.indent = lineAttrib.indent]

StyleTag ==
  /\ Tag({"ind", "noi"})
  /\ lineAttrib' = Styled(IF Token = "ind" THEN Style(1, 1) ELSE Default)
  /\ UNCHANGED <<doc, glyphBuffer, modes, delayedToken, words, glyphAttrib, curLine, cell, pc, reader>>

FontTag ==
  /\ Tag({"font", "/font"})
  /\ glyphAttrib' = IF Token = "font" THEN 1 ELSE 0
  /\ UNCHANGED <<doc, glyphBuffer, modes, delayedToken, words, lineAttrib, curLine, cell, pc, reader>>

TitleTag ==
  /\ Tag({"title", "/title"})
  /\ headerMode' = (Token = "title")
  /\ IF Token = "/title" THEN glyphAttrib' = 0 /\ lineAttrib' = Default
     ELSE lineAttrib' = [lineAttrib EXCEPT !.align = 1] /\ UNCHANGED glyphAttrib
  /\ UNCHANGED <<doc, glyphBuffer, listMode, olType, delayedToken, words, curLine, cell, pc, reader>>

\* Text: the line gets the style, and the labels that waited go before it.
BeginWords ==
  /\ pc = "tags" /\ ~AtEnd /\ Token \in {"c", "e"}
  /\ glyphBuffer' = glyphBuffer \o delayedToken /\ delayedToken' = <<>>
  /\ countProcWord' = FreshCount /\ pc' = "words" /\ curLine' = [curLine EXCEPT !.style = lineAttrib]
  /\ UNCHANGED <<doc, off, modes, resumeProcWord, glyphAttrib, lineAttrib, cell, reader>>

\* procWord deletes the characters of a title.
InTitle == headerMode

Shown(t) == IF t = "nl" THEN "break" ELSE t

\* A newline among words breaks the line, but neither the run nor the batch.
Word ==
  /\ pc = "words" /\ ~AtEnd /\ Token \in Chars /\ Read
  /\ glyphBuffer' = IF InTitle THEN glyphBuffer
                    ELSE Append(glyphBuffer, Glyph(Here, Shown(Token), glyphAttrib, Default))
  /\ countProcWord' = countProcWord + 1
  /\ resumeProcWord' = (countProcWord + 1 > WordMax)
  /\ pc' = IF resumeProcWord' THEN "ask" ELSE "words"
  /\ UNCHANGED <<doc, modes, delayedToken, attribs, cell, reader>>

\* A tag ends the words and is pushed back.
EndWords ==
  /\ pc = "words" /\ ~AtEnd /\ Token \notin Chars
  /\ pc' = "ask"
  /\ UNCHANGED <<doc, off, glyphBuffer, modes, delayedToken, words, attribs, cell, reader>>

-----------------------------------------------------------------------------
(* ParseTable, getTR and getTD: a table is parsed to its end in one batch.  *)

TableTag ==
  /\ Tag({"table"}) /\ pc' = "table" /\ cell' = NoCell
  /\ UNCHANGED <<doc, glyphBuffer, modes, delayedToken, words, attribs, reader>>

InTable(at, kinds) ==
  /\ pc \in at /\ ~AtEnd /\ Token \in kinds /\ Read
  /\ UNCHANGED <<doc, delayedToken, words, attribs, headerMode, reader>>

\* A new cell: default font, no labels.
CellBegin ==
  /\ InTable({"table"}, {"td"}) /\ pc' = "td"
  /\ cell' = [cell EXCEPT !.delayed = <<>>, !.font = 0]
  /\ UNCHANGED <<glyphBuffer, listMode, olType>>

\* Labels of items without text go with the cell.
CellEnd ==
  /\ InTable({"td", "cell"}, {"/td"}) /\ pc' = "table"
  /\ UNCHANGED <<glyphBuffer, listMode, olType, cell>>

CellTag ==
  /\ InTable({"td", "cell"}, {"br", "li", "font", "/font"}) /\ pc' = "cell"
  /\ cell' =
       CASE Token = "br" -> [cell EXCEPT !.glyphs = Append(@, Plain(Here, "break"))]
         [] Token = "li" -> [cell EXCEPT !.delayed = @ \o
              (CASE listMode = "LM_ORDER" -> NumberLabel
                 [] listMode = "LM_UNORDER" -> <<Plain(Here, "bullet")>>
                 [] OTHER -> <<>>)]
         [] Token = "font"  -> [cell EXCEPT !.font = 1]
         [] Token = "/font" -> [cell EXCEPT !.font = 0]
  /\ UNCHANGED <<glyphBuffer, listMode, olType>>

\* The parser's list mode is shared with the text around the table.
CellListTag ==
  /\ InTable({"td", "cell"}, Lists \cup {"/list"}) /\ pc' = "cell"
  /\ listMode' = ListModeOf(Token)
  /\ UNCHANGED <<glyphBuffer, olType, cell>>

\* Images, tables and titles inside a cell are not supported; a style is kept
\* in the cell, whose line takes the parser's own.  Blanks and newlines are
\* skipped after a tag and, as rows are, between the cells.
CellSkip ==
  /\ \/ InTable({"td", "cell"}, {"x", "img", "ind", "noi", "title", "/title"})
     \/ InTable({"cell"}, {"b", "nl"})
     \/ InTable({"table"}, {"b", "nl", "x"})
  /\ pc' = (IF pc = "table" THEN "table" ELSE "cell")
  /\ UNCHANGED <<glyphBuffer, listMode, olType, cell>>

\* Text of the cell, its labels first.  Behind <td> a blank is text, and a
\* newline a break.
CellWords ==
  /\ ~AtEnd
  /\ \/ pc = "td" /\ Token \in Chars
     \/ pc = "cell" /\ Token \in {"c", "e"}
  /\ pc' = "cellwords"
  /\ cell' = [cell EXCEPT !.glyphs = @ \o cell.delayed, !.delayed = <<>>]
  /\ UNCHANGED <<doc, off, glyphBuffer, modes, delayedToken, words, attribs, reader>>

\* procTableWord has no `else': an entity is read over by its own ampersand.
CellWord ==
  /\ InTable({"cellwords"}, Chars) /\ pc' = "cellwords"
  /\ cell' = [cell EXCEPT !.glyphs = Append(@,
                Glyph(Here, IF Token = "e" THEN "ampersand" ELSE Shown(Token), cell.font,
                      lineAttrib))]
  /\ UNCHANGED <<glyphBuffer, listMode, olType>>

CellWordsEnd ==
  /\ pc = "cellwords" /\ ~AtEnd /\ Token \notin Chars /\ pc' = "cell"
  /\ UNCHANGED <<doc, off, glyphBuffer, modes, delayedToken, words, attribs, cell, reader>>

TableEnd ==
  /\ InTable({"table"}, {"/table"}) /\ pc' = "tags"
  /\ glyphBuffer' = Append(glyphBuffer, [Plain(Here, "table") EXCEPT !.cells = cell.glyphs])
  /\ cell' = NoCell
  /\ UNCHANGED <<listMode, olType>>

-----------------------------------------------------------------------------
(* The client.                                                              *)

Reading == IF back.n = 0 THEN first ELSE shown

Ended   == Reading # <<>> /\ Reading[Len(Reading)].kind = "eof"

\* GetCharPos and NewLine: a break ends the line, a full line wraps; either
\* way the next line is a new one.
LineOf(g)    == IF g.kind # "break" /\ curLine.n = LineLen THEN FreshLine ELSE curLine
LineAfter(g) == IF g.kind = "break" THEN FreshLine ELSE [LineOf(g) EXCEPT !.n = @ + 1]

\* A page shown again ends where it ended first: its length, if it has ended.
PageLen(p) ==
  (IF p < Len(pages) THEN pages[p + 1].from ELSE Len(first)) - pages[p].from
PageShown == back.n > 0 /\ Len(shown) = PageLen(back.page)

\* GetNextGlyph with a glyph at hand, and Glyph::Setup.
Take ==
  LET g   == Head(glyphBuffer)
      set == [g EXCEPT !.line = LineOf(g).style]
  IN  /\ pc = "ask" /\ glyphBuffer # <<>> /\ ~Ended /\ ~PageShown
      /\ glyphBuffer' = Tail(glyphBuffer) /\ curLine' = LineAfter(g)
      /\ IF back.n = 0 THEN first' = Append(first, set) /\ UNCHANGED shown
                       ELSE shown' = Append(shown, set) /\ UNCHANGED first
      /\ UNCHANGED <<doc, off, modes, delayedToken, words, glyphAttrib, lineAttrib, cell, pc,
                     pages, back>>

\* Or the glyph does not fit: it goes back, and a new page is started.
TurnPage ==
  /\ pc = "ask" /\ glyphBuffer # <<>> /\ Head(glyphBuffer).kind # "eof"
  /\ back.n = 0 /\ Len(pages) < MaxPages /\ Len(first) > pages[Len(pages)].from
  /\ pages' = Append(pages, ShadowDocState(glyphBuffer, Len(first)))
  /\ curLine' = FreshLine
  /\ UNCHANGED <<doc, off, glyphBuffer, modes, delayedToken, words, glyphAttrib, lineAttrib,
                 cell, pc, first, shown, back>>

\* A page that is read for the first time is not left half way.
PageDone ==
  PageShown \/ Ended \/ (back.n = 0 /\ Len(pages) > 1 /\ Len(first) = pages[Len(pages)].from)

\* A page break leaves a new line, the end of the document the last one.
LineLeft == IF Ended THEN [curLine EXCEPT !.n = 0] ELSE FreshLine

SameModes(h) ==
  /\ h.listMode = listMode /\ h.olType = olType /\ h.headerMode = headerMode
  /\ h.resume = resumeProcWord /\ h.delayed = <<>> /\ LineLeft = FreshLine

RestoredFontKept(s) == glyphAttrib                                           \* mutant
RestoredFont(s) == s.glyphAttrib

RestoredLineKept(s) == lineAttrib                                            \* mutant
RestoredLine(s) == s.lineAttrib

RestoredBufferLost(s) == <<>>                                                \* mutant
RestoredBuffer(s) == s.buffer

\* RestoreDocState: ClearGlyphStream also drops the delayed labels; the modes
\* stay as they are.
RestoreDocState(p) ==
  LET s == pages[p]
  IN  /\ pc = "ask" /\ PageDone /\ back.n < MaxBack /\ p \in DOMAIN pages /\ PageLen(p) > 0
      /\ off' = s.offset /\ glyphBuffer' = RestoredBuffer(s) /\ delayedToken' = <<>>
      /\ glyphAttrib' = RestoredFont(s) /\ lineAttrib' = RestoredLine(s)
      /\ curLine' = LineLeft
      /\ back' = [n |-> back.n + 1, page |-> p, same |-> SameModes(s.hidden)]
      /\ shown' = <<>>
      /\ UNCHANGED <<doc, modes, words, cell, pc, first, pages>>

Parser ==
  \/ Fill \/ AtEof \/ Skip \/ BreakTag \/ ImgTag \/ ItemTag \/ ListTag \/ StyleTag
  \/ FontTag \/ TitleTag \/ BeginWords \/ Word \/ EndWords
  \/ TableTag \/ CellBegin \/ CellTag \/ CellListTag \/ CellSkip \/ CellWords
  \/ CellWord \/ CellWordsEnd \/ CellEnd \/ TableEnd

Next ==
  \/ Parser \/ Take \/ TurnPage \/ \E p \in 1 .. MaxPages : RestoreDocState(p)

Spec == Init /\ [][Next]_vars

-----------------------------------------------------------------------------
(* What a document says, by its tokens alone.                               *)

LastIn(S) == CHOOSE k \in S : \A j \in S : j <= k

\* The cell a token is in, as a set of at most one <td>.
CellOf(k) ==
  {j \in 1 .. k - 1 : doc[j] = "td" /\ \A i \in j .. k - 1 : doc[i] # "/td"}

\* The last of some tags before token k, in the same cell or outside all; ""
\* if there is none.
LastTag(k, tags) ==
  LET S == {j \in 1 .. k - 1 : doc[j] \in tags /\ CellOf(j) = CellOf(k)}
  IN  IF S = {} THEN "" ELSE doc[LastIn(S)]

ListAt(k) ==
  LET S == {j \in 1 .. k - 1 : doc[j] \in Lists \cup {"/list"}}
  IN  IF S = {} THEN "/list" ELSE doc[LastIn(S)]

FontAt(k) == IF LastTag(k, {"font", "/font", "/title"}) = "font" THEN 1 ELSE 0

\* The style of a paragraph; a style inside a list keeps the indent.
StyleAt(k) ==
  LET S == {j \in 1 .. k - 1 :
              doc[j] \in {"ind", "noi", "/title"} /\ CellOf(j) = CellOf(k)}
      Given(A) == IF A # {} /\ doc[LastIn(A)] = "ind" THEN 1 ELSE 0
  IN  Style(Given({j \in S : ListAt(j) = "/list"}), Given(S))

LabelOf(j) ==
  CASE ListAt(j) = "ul"  -> "bullet"
    [] ListAt(j) = "ola" -> "letter"
    [] OTHER -> "number"

\* The items whose text begins with token k; blanks begin none.
ItemsBegunBy(k) ==
  {j \in 1 .. k - 1 :
     /\ doc[j] = "li" /\ ListAt(j) # "/list" /\ CellOf(j) = CellOf(k)
     /\ \A i \in j .. k - 1 : doc[i] \in {"c", "e"} => CellOf(i) # CellOf(k)}

-----------------------------------------------------------------------------
(* Properties.                                                              *)

Labels == {"number", "letter", "bullet"}
Kinds  == Labels \cup Text \cup {"break", "img", "table", "eof", "ampersand"}
Styles == [indent : {0, 1}, align : {0, 1}]
Simple == [tok : Nat, kind : Kinds, font : {0, 1}, line : Styles, cells : {<<>>}]
AnyGlyph == [tok : Nat, kind : Kinds, font : {0, 1}, line : Styles, cells : Seq(Simple)]
Glyphs == Seq(AnyGlyph)

ListModes == {"LM_NONE", "LM_ORDER", "LM_UNORDER"}
OlTypes   == {"OL_NUM", "OL_LETTER"}
Saved     == [offset : 0 .. Len(doc), buffer : Glyphs, glyphAttrib : {0, 1},
              lineAttrib : Styles, from : Nat,
              hidden : [listMode : ListModes, olType : OlTypes, headerMode : BOOLEAN,
                        delayed : Glyphs, resume : BOOLEAN]]

\* Types of the state.
TypeOK ==
  /\ doc \in Docs /\ off \in 0 .. Len(doc)
  /\ glyphBuffer \in Glyphs /\ delayedToken \in Glyphs /\ first \in Glyphs /\ shown \in Glyphs
  /\ listMode \in ListModes /\ olType \in OlTypes /\ headerMode \in BOOLEAN
  /\ resumeProcWord \in BOOLEAN /\ countProcWord \in 0 .. WordMax + 1
  /\ glyphAttrib \in {0, 1} /\ lineAttrib \in Styles
  /\ curLine \in [style : Styles, n : 0 .. LineLen]
  /\ cell \in [glyphs : Seq(Simple), delayed : Seq(Simple), font : {0, 1}]
  /\ pc \in {"ask", "tags", "words", "table", "td", "cell", "cellwords"}
  /\ pages \in Seq(Saved)
  /\ back \in [n : 0 .. MaxBack, page : Nat, same : BOOLEAN]

IsText(g) == g.kind \in Text

\* The glyph taken last: each is, once.
Latest(s) == s[Len(s)]
LatestIsText(s) == s # <<>> /\ IsText(Latest(s))

\* Directly before the last glyph of s: n glyphs.
Before(s, n) ==
  {Plain(s[m].tok, s[m].kind) : m \in {k \in 1 .. Len(s) - 1 : k >= Len(s) - n}}

\* In a first reading the text of a list item begins with the item's label,
\* of the kind its list asks for, whatever tags, line breaks and page turns
\* lie between <li> and the text (delayedToken).
Labelled ==
  LatestIsText(first) =>
    LET J == ItemsBegunBy(Latest(first).tok)
    IN  Before(first, Cardinality(J)) = {Plain(j, LabelOf(j)) : j \in J}

\* Text has the font its place in the document gives it, also when its page
\* is shown again, and a title is never text (Attrib_Glyph in DocState).
FontAsWritten ==
  LatestIsText(Reading) =>
    LET k == Latest(Reading).tok
    IN  Latest(Reading).font = FontAt(k) /\ LastTag(k, {"title", "/title"}) # "title"

\* Tokens a to b are all of one run of words.
SameRun(a, b) == \A m \in a .. b : doc[m] \in Chars

\* Glyph i of the first reading is on a line that glyph j, a break, began, on
\* the same page and with nothing but labels before it.
BeginsLine(j, i) ==
  /\ first[j].kind = "break" /\ i - j <= LineLen
  /\ \A m \in j + 1 .. i - 1 : first[m].kind \in Labels
  /\ \A p \in DOMAIN pages : pages[p].from \notin j .. i - 1

\* In a first reading the text of a paragraph is set in a line of its style,
\* never of another's, whatever lists and tables came before (SetAttrib at
\* the begin of a run of words); only where the line wraps or the page ends,
\* and behind a newline in its own run, has the next line the default.
StyleAsWritten ==
  LatestIsText(first) =>
    LET g == Latest(first)
    IN  /\ g.line \in {StyleAt(g.tok), Default}
        /\ \A j \in 1 .. Len(first) - 1 :
             BeginsLine(j, Len(first)) /\ ~SameRun(first[j].tok, g.tok) =>
               g.line = StyleAt(g.tok)

\* ... and behind a newline too.
StyledBehindNewlines ==
  LatestIsText(first) =>
    \A j \in 1 .. Len(first) - 1 :
      BeginsLine(j, Len(first)) => Latest(first).line = StyleAt(Latest(first).tok)

\* The page shown again is the page first shown, if the parser's modes happen
\* to be what they were: listMode, olType, headerMode, resumeProcWord, the
\* delayed labels and the line are all that a page file lacks.
ReplaySame ==
  back.n > 0 /\ back.same /\ shown # <<>> =>
    Latest(shown) = first[pages[back.page].from + Len(shown)]

\* ... and whatever they are, it shows the same text, images and breaks but
\* those of newlines, which are no breaks where a run is taken for tags.
Lasting(s) ==
  SelectSeq(s, LAMBDA g : /\ g.kind \notin Labels \cup {"b"}
                          /\ g.kind = "break" => doc[g.tok] # "nl")
Tokens(s)  == [i \in DOMAIN s |-> s[i].tok]
ReplayKeepsText ==
  back.n > 0 =>
    LET a == Tokens(Lasting(shown))
        b == Tokens(Lasting(SubSeq(first, pages[back.page].from + 1, Len(first))))
    IN  IsPrefix(a, b) \/ IsPrefix(b, a)

\* Text in a cell is read as text elsewhere is: entities, font and style.
CellsReadAsText ==
  first # <<>> => \A m \in DOMAIN Latest(first).cells :
    LET g == Latest(first).cells[m]
    IN  g.kind \in Text \cup {"ampersand"} =>
          /\ g.kind = doc[g.tok]
          /\ g.font = FontAt(g.tok) /\ g.line = StyleAt(g.tok)
=============================================================================
