----------------------------- MODULE PageBased -----------------------------
(***************************************************************************)
(* HG_PB_...: the pages of an earlier run, each rendered again on its own  *)
(* and with another character size, as sub-pages (lib/MayTwelfth.cpp       *)
(* PB_Set2Page, PB_Display and PB_GetPage, lib/PageManager.cpp with a      *)
(* sub-page number, lib/DocStream.cpp GetChar under pg_based_render).      *)
(*                                                                         *)
(* First the earlier run paginates the document and leaves one .pg file    *)
(* per page; then a second engine restores the parser from such a file and *)
(* reads on to the offset where that page ended.  Each sub-page has a file *)
(* of its own, <page>-<sub>.pg.  Both runs turn glyphs into pages the same *)
(* way, so they share the actions that render.                             *)
(***************************************************************************)
EXTENDS PageLayout, GlyphStream

CONSTANTS
  Docs,                     \* documents, sequences of Token that end with a tag
  OldSize, NewSizes,        \* character size of the earlier run, and of this one
  Indent,                   \* text indent of every paragraph
  MaxPage, MaxSub           \* bounds: page and sub-page numbers asked for

NoMax == 1000               \* MAX_INT32, larger than any page number

ASSUME PageBasedAssumption ==
  /\ MaxPage \in Nat /\ MaxSub \in 0 .. NoMax /\ Indent \in Nat /\ WordMax \in Nat
  /\ OldSize \in Nat /\ NewSizes \subseteq Nat
  /\ \A d \in Docs : d \in Seq(Token) /\ d # <<>> /\ d[Len(d)] \in Tag

VARIABLES
  mode,            \* "paginate": the earlier run; "pb"; "dead": the process died
  doc, size,
  widTab,          \* the size the font's width table was made for
  parser,          \* [off, buf, resume]; term: the stream's term_off; held: the
                   \*   last character is pushed back; freed: the Eof in buf
                   \*   was deleted
  lo,              \* the page layout
  mgr,             \* [cur, max, num] of the page manager
  pg,              \* .pg files: of page p under <<p>>, of sub-page s under <<p, s>>
  cur,             \* pb_cur_page, -1 before the first HG_PB_SetPage
  call,            \* [n, i, fwd]: what PB_Display was asked for, and its loop
  st,              \* "idle", "display", "draw", "shown"
  sub, newPage,    \* the (sub-)page being rendered, and whether for the first time
  shown,           \* glyphs on it
  content,         \* history: what each page, or sub-page of cur, showed first
  out,             \* history: glyphs of all the sub-pages of cur, in order
  back             \* history: a sub-page of cur was restored

input   == <<doc, size, widTab>>
frame   == <<cur, call, sub, newPage>>
history == <<content, out, back>>
vars    == <<mode, input, parser, lo, mgr, pg, frame, st, shown, history>>

NoCall      == [n |-> 0, i |-> 0, fwd |-> FALSE]
FreshParser ==
  [off |-> 0, buf |-> <<>>, resume |-> FALSE, term |-> 0, held |-> 0, freed |-> FALSE]
FreshMgr    == [cur |-> 0, max |-> NoMax, num |-> 0]
Empty       == [p \in {} |-> <<>>]
Write(f, p, v) == [q \in DOMAIN f \cup {p} |-> IF q = p THEN v ELSE f[q]]

Eof == EofGlyph(doc)
HasEof(buf) == \E i \in DOMAIN buf : buf[i] = Eof

Init ==
  /\ mode = "paginate" /\ doc \in Docs /\ size = OldSize /\ widTab = size
  /\ parser = FreshParser /\ lo = NewPage(NewLayout) /\ mgr = FreshMgr
  /\ pg = Empty /\ cur = -1 /\ call = NoCall /\ st = "idle"
  /\ sub = 0 /\ newPage = FALSE /\ shown = <<>>
  /\ content = Empty /\ out = <<>> /\ back = FALSE

-----------------------------------------------------------------------------
(* The page manager.                                                        *)

\* work_dir/<page>.pg or work_dir/<page>-<sub>.pg
File(s) == IF mode = "pb" THEN <<cur, s>> ELSE <<s>>

\* ShadowDocState and StoreState; PostStoreState deletes the copied glyphs,
\* and an Eof is its own copy.
StartPage(s) ==
  /\ pg' = Write(pg, File(s), [done |-> FALSE, off |-> parser.off, term |-> 0,
                               buf |-> parser.buf])
  /\ parser' = [parser EXCEPT !.freed = HasEof(parser.buf)]
  /\ content' = Write(content, File(s), <<>>)
  /\ UNCHANGED <<lo, back>>

\* A file that is missing or not complete is an empty state at offset 0.
Recovered(f) ==
  IF f \in DOMAIN pg /\ pg[f].done THEN pg[f]
  ELSE [done |-> FALSE, off |-> 0, term |-> 0, buf |-> <<>>]

\* RestoreDocState also gives the stream its term_off; resumeProcWord stays.
Restored(f) ==
  LET r == Recovered(f)
  IN  [off |-> r.off, buf |-> r.buf, resume |-> parser.resume,
       term |-> r.term, held |-> 0, freed |-> HasEof(r.buf)]

LayoutKept  == lo                                                         \* mutant
LayoutReset == Reset(lo)

RestorePage(s) ==
  /\ parser' = Restored(<<cur, s>>) /\ lo' = LayoutReset /\ back' = TRUE
  /\ UNCHANGED <<pg, content>>

TermPlaceholder == 0                                                      \* mutant
TermOff == parser'.off

\* FinalStoreState and AppendState.  The state is deleted in between, but no
\* allocation of its size follows before term_off is written.
EndPage(m) ==
  IF sub = mgr.num
  THEN /\ mgr' = [m EXCEPT !.num = @ + 1]
       /\ pg' = [pg EXCEPT ![File(sub)].done = TRUE, ![File(sub)].term = TermOff]
  ELSE mgr' = m /\ UNCHANGED pg

NextPageNum == IF mgr.cur + 1 <= mgr.max THEN mgr.cur + 1 ELSE mgr.cur

-----------------------------------------------------------------------------
(* Calls.                                                                   *)

\* Rendering begins.
Render(s) ==
  /\ sub' = s /\ newPage' = (s = mgr.num) /\ st' = "draw" /\ shown' = <<>>
  /\ IF s = mgr.num THEN StartPage(s) ELSE RestorePage(s)
  /\ UNCHANGED <<mode, input, cur, out>>

\* The earlier run shows page after page, to the last.
Paginate ==
  /\ mode = "paginate" /\ st = "idle" /\ mgr.max = NoMax
  /\ Render(mgr.num)
  /\ UNCHANGED <<mgr, call>>

\* PreBuildWidTab runs in each engine, but the table is static and insert()
\* replaces no entry: in one process the first engine's widths stay.
PreBuildWidTab(sameProcess) == widTab' = IF sameProcess THEN widTab ELSE size'

\* HG_PB_Init and HG_PB_StartParse: a new engine finds the files.
OpenPages(sameProcess) ==
  /\ mode = "paginate" /\ st = "idle" /\ mgr.max # NoMax
  /\ mode' = "pb" /\ size' \in NewSizes /\ PreBuildWidTab(sameProcess)
  /\ parser' = FreshParser /\ lo' = NewPage(NewLayout) /\ mgr' = FreshMgr
  /\ shown' = <<>>
  /\ UNCHANGED <<doc, pg, frame, st, history>>

MgrKept == mgr                                                            \* mutant
MgrReset == FreshMgr

\* PB_Set2Page
SetPage(p) ==
  /\ mode = "pb" /\ st = "idle"
  /\ lo' = LayoutReset /\ mgr' = MgrReset /\ parser' = Restored(<<p>>) /\ cur' = p
  /\ out' = <<>> /\ back' = FALSE
  /\ UNCHANGED <<mode, input, pg, call, sub, newPage, st, shown, content>>

\* PB_GetPage: NULL at once beyond the last sub-page.
GetPage(n) ==
  /\ mode = "pb" /\ st = "idle" /\ cur >= 0 /\ n <= mgr.max
  /\ call' = [n |-> n, i |-> 0, fwd |-> FALSE] /\ st' = "display"
  /\ UNCHANGED <<mode, input, parser, lo, mgr, pg, cur, sub, newPage, shown, history>>

\* PB_Display
DisplayPage ==
  /\ st = "display" /\ call.n <= mgr.num
  /\ Render(call.n) /\ UNCHANGED <<mgr, call>>

DisplayAhead ==
  /\ st = "display" /\ call.n > mgr.num
  /\ call' = [call EXCEPT !.i = mgr.num, !.fwd = TRUE]
  /\ Render(mgr.num) /\ UNCHANGED mgr

\* if (i++ >= maxPageNum) return NULL
AfterLast == call.i >= mgr.max

\* while (i < page_num) PB_Display(pgMgr.NextPage())
AheadLoop ==
  /\ st = "shown" /\ call.fwd /\ ~AfterLast /\ call.i + 1 < call.n
  /\ call' = [call EXCEPT !.i = @ + 1] /\ mgr' = [mgr EXCEPT !.cur = NextPageNum]
  /\ Render(NextPageNum)

AheadLast ==
  /\ st = "shown" /\ call.fwd /\ ~AfterLast /\ call.i + 1 >= call.n
  /\ call' = [call EXCEPT !.fwd = FALSE] /\ st' = "display"
  /\ UNCHANGED <<mode, input, parser, lo, mgr, pg, cur, sub, newPage, shown, history>>

Return ==
  /\ st = "shown" /\ (call.fwd => AfterLast)
  /\ call' = NoCall /\ st' = "idle"
  /\ UNCHANGED <<mode, input, parser, lo, mgr, pg, cur, sub, newPage, shown, history>>

-----------------------------------------------------------------------------
(* Rendering.                                                               *)

\* The end of what may be read: the document's, or term_off.
ReadEnd == IF mode = "pb" THEN parser.term ELSE Len(doc)

\* GetChar answers EOF as soon as file_off has reached term_off, even for a
\* character that was pushed back, and procWord pushes each one back once:
\* the last character before term_off is not shown.
LosesLast(b) ==
  /\ mode = "pb" /\ ReadEnd > 0 /\ doc[ReadEnd] \notin Tag
  /\ \E i \in DOMAIN b.glyphs : b.glyphs[i] = ReadEnd

\* The batch without the last of its words, and the end behind it.
Shortened(b) ==
  LET n == CHOOSE i \in DOMAIN b.glyphs : b.glyphs[i] = ReadEnd
  IN  [b EXCEPT !.glyphs = SubSeq(@, 1, n - 1) \o <<Eof>>,
                !.off = ReadEnd - 1, !.resume = FALSE]

\* The stream answers EOF, or fillGlyphStream reads on.
AtTermOff  == parser.off + parser.held >= ReadEnd
ReadOn     == Fill(SubSeq(doc, 1, ReadEnd), parser.off, parser.resume)
WithEof(b) == [b EXCEPT !.glyphs = [i \in DOMAIN @ |-> IF @[i] > ReadEnd THEN Eof ELSE @[i]]]
Filled ==
  IF AtTermOff THEN Batch(<<Eof>>, parser.off, parser.resume, FALSE)
  ELSE IF LosesLast(ReadOn) THEN Shortened(ReadOn) ELSE WithEof(ReadOn)

FillBuffer ==
  /\ st = "draw" /\ parser.buf = <<>>
  /\ parser' = [off |-> Filled.off, buf |-> Filled.glyphs, resume |-> Filled.resume,
                term |-> parser.term, freed |-> FALSE,
                held |-> IF ~AtTermOff /\ LosesLast(ReadOn) THEN 1 ELSE parser.held]
  /\ lo' = IF Filled.setsAttrib THEN [lo EXCEPT !.indent = Indent] ELSE lo
  /\ UNCHANGED <<mode, input, mgr, pg, frame, st, shown, history>>

\* The width is looked up in the table, the height is the present size.
Place(g) == IF doc[g] \in LineBreaks THEN NewLine(lo) ELSE GetCharPos(lo, widTab, size, size)

TakesGlyph(g) == st = "draw" /\ parser.buf # <<>> /\ g = Head(parser.buf)

Taken == [parser EXCEPT !.buf = Tail(@)]

DrawGlyph(g) ==
  /\ TakesGlyph(g) /\ g # Eof /\ Place(g).ret # "NEW_PAGE"
  /\ lo' = Place(g).lo /\ parser' = Taken /\ shown' = Append(shown, g)
  /\ IF newPage THEN /\ content' = [content EXCEPT ![File(sub)] = Append(@, g)]
                     /\ out' = Append(out, g)
                ELSE UNCHANGED <<content, out>>
  /\ UNCHANGED <<mode, input, mgr, pg, frame, st, back>>

GivenBackNever == Taken                                                   \* mutant
GivenBack == IF newPage THEN parser ELSE Taken

BreakPage(g) ==
  /\ TakesGlyph(g) /\ g # Eof /\ Place(g).ret = "NEW_PAGE"
  /\ lo' = Reset(Place(g).lo) /\ parser' = GivenBack /\ EndPage(mgr) /\ st' = "shown"
  /\ UNCHANGED <<mode, input, frame, shown, history>>

EndDocument(g) ==
  /\ TakesGlyph(g) /\ g = Eof
  /\ parser' = Taken /\ EndPage([mgr EXCEPT !.max = sub]) /\ st' = "shown"
  /\ UNCHANGED <<mode, input, lo, frame, shown, history>>

\* Setup is called on an Eof that was deleted: the process may die.
Die(g) ==
  /\ TakesGlyph(g) /\ g = Eof /\ parser.freed
  /\ mode' = "dead" /\ st' = "idle" /\ cur' = -1
  /\ UNCHANGED <<input, parser, lo, mgr, pg, call, sub, newPage, shown, history>>

Glyphs == 1 .. Eof

Next ==
  \/ Paginate \/ (\E same \in BOOLEAN : OpenPages(same)) \/ DisplayPage \/ DisplayAhead \/ AheadLoop \/ AheadLast
  \/ Return \/ FillBuffer
  \/ \E p \in 0 .. MaxPage : SetPage(p)
  \/ \E n \in 0 .. MaxSub : GetPage(n)
  \/ \E g \in Glyphs : DrawGlyph(g) \/ BreakPage(g) \/ EndDocument(g) \/ Die(g)

Spec == Init /\ [][Next]_vars

-----------------------------------------------------------------------------
(* Properties.                                                              *)

Offset     == 0 .. Len(doc)
FileType   == [done : BOOLEAN, off : Offset, term : Offset, buf : Seq(Glyphs)]
ParserType == [off : Offset, buf : Seq(Glyphs), resume : BOOLEAN, term : Offset,
               held : {0, 1}, freed : BOOLEAN]
MgrType    == [cur : Nat, max : Nat, num : Nat]
CallType   == [n : Nat, i : Nat, fwd : BOOLEAN]

\* A file ends where or behind where it begins.
FilesOK ==
  /\ DOMAIN pg = DOMAIN content
  /\ \A f \in DOMAIN pg :
       /\ pg[f] \in FileType /\ (pg[f].done => pg[f].off <= pg[f].term)
       /\ content[f] \in Seq(DOMAIN doc)

\* Types of the state.
TypeOK ==
  /\ mode \in {"paginate", "pb", "dead"} /\ doc \in Docs
  /\ size \in NewSizes \cup {OldSize} /\ widTab \in NewSizes \cup {OldSize}
  /\ st \in {"idle", "display", "draw", "shown"}
  /\ parser \in ParserType /\ lo \in Layout /\ mgr \in MgrType
  /\ cur \in Nat \cup {-1} /\ call \in CallType
  /\ sub \in Nat /\ newPage \in BOOLEAN /\ back \in BOOLEAN
  /\ shown \in Seq(DOMAIN doc) /\ out \in Seq(DOMAIN doc)
  /\ FilesOK

ContentOf(f) == IF f \in DOMAIN content THEN content[f] ELSE <<>>
BufferOf(f)  == IF f \in DOMAIN pg THEN pg[f].buf ELSE <<>>

\* Glyphs are places in the document: what a sequence of them shows, in the
\* document's order, and whether one text begins with another.
Visible(s)   == {g \in DOMAIN doc : doc[g] \notin BlankChars /\ \E i \in DOMAIN s : s[i] = g}
InOrder(s)   == \A i, j \in DOMAIN s : i < j => s[i] < s[j]
Begins(A, B) == A \subseteq B /\ \A a \in A, b \in B \ A : a < b

\* The sub-pages of a page, up to the last, show what the page showed in the
\* earlier run, once and in order, and behind it at most the begin of the next
\* page, never something else: not another page left from before, and not
\* the document's start for a page that has no file (pgMgr.Reset, term_off).
SubPagesShowPage ==
  mode = "pb" /\ cur >= 0 /\ st = "idle" /\ mgr.max # NoMax /\ ~back =>
    LET page == Visible(ContentOf(<<cur>>))
        next == Visible(BufferOf(<<cur + 1>>))
    IN  /\ InOrder(ContentOf(<<cur>>)) /\ InOrder(out)
        /\ Begins(page, Visible(out)) /\ Begins(Visible(out), page \cup next)

\* A sub-page that is shown again shows what it showed, in order; only the
\* last glyph may be missing (term_off of the sub-page's own file).
SubPageAgain ==
  mode = "pb" /\ st = "shown" /\ ~newPage =>
    LET before == Visible(ContentOf(<<cur, sub>>))
    IN  /\ InOrder(shown) /\ Begins(Visible(shown), before)
        /\ \A g, h \in before \ Visible(shown) : g = h

\* It shows exactly the same.
SameSubPage ==
  mode = "pb" /\ st = "shown" /\ ~newPage =>
    Visible(shown) = Visible(ContentOf(<<cur, sub>>))

\* No part of the next page is shown (MayTwelfth.cpp:353, "page based").
NoOverlap ==
  mode = "pb" /\ cur >= 0 /\ st = "idle" /\ mgr.max # NoMax /\ ~back =>
    Visible(out) = Visible(ContentOf(<<cur>>))

\* Text is set with the widths of its own size.
WidthsOfThisEngine == widTab = size

\* The process lives.
Lives == mode # "dead"

\* Once known, the last sub-page stays the last until another page is set.
LastSubStays ==
  [][cur' = cur /\ cur >= 0 /\ mgr.max # NoMax /\ out' # <<>> => mgr'.max = mgr.max]_vars
=============================================================================
