----------------------------- MODULE PageEngine -----------------------------
(***************************************************************************)
(* The pagination engine: May12th (lib/MayTwelfth.cpp) driving the page    *)
(* manager (lib/PageManager.cpp), the parser's state (lib/DocParser.cpp),  *)
(* the page layout, and one .pg file per page (lib/DocState.cpp) in a      *)
(* directory that outlives the engine.                                     *)
(*                                                                         *)
(* A page is rendered for the first time by carrying on where the parser   *)
(* stands, and again by restoring the parser from the page's .pg file.     *)
(* The file is written in two steps, at the start and at the end of the    *)
(* first rendering.  The engine may die between any two steps; a new one   *)
(* finds the files, and in serialized mode shows pages from them alone.    *)
(*                                                                         *)
(* One action per step of Display, so that a whole call is a sequence of   *)
(* steps.  The stream is the foreground one, which module DocStream shows  *)
(* to be a cursor: its offset counts tokens here.                          *)
(*                                                                         *)
(* Definitions marked "mutant" are plausible mistakes in the definition    *)
(* that follows: each is used to check that some property notices it.      *)
(***************************************************************************)
EXTENDS PageLayout, GlyphStream

CONSTANTS
  Docs,                     \* documents to choose from, sequences of Token
  CharSizes,                \* sizes of a character: what HG_Init's dpi decides
  Indent,                   \* text indent of every paragraph
  MaxPage,                  \* bound: page numbers a client asks for
  MaxHeld,                  \* bound: buffers held, or lost
  LookBack,                 \* clients ask for pages they have already seen
  JumpAhead,                \* clients ask for pages further than the next
  CountAll,                 \* clients call HG_GetMaxPage
  Modes                     \* how an engine may be started

NoMax == 1000               \* MAX_INT32, larger than any page number

ASSUME EngineAssumption ==
  /\ MaxPage \in 0 .. NoMax - 1 /\ MaxHeld \in Nat
  /\ CharSizes \subseteq Nat /\ Indent \in Nat
  /\ {LookBack, JumpAhead, CountAll} \subseteq BOOLEAN
  /\ Modes \subseteq {"plain", "fast", "serial"}
  /\ WordMax \in Nat
  /\ \A d \in Docs : d \in Seq(Token)

VARIABLES
  mode,            \* "off", or one of Modes: "fast" is fast_page_sum
  doc,             \* the document
  size,            \* the size of its characters in this session
  parser,          \* [off, buf, resume]: stream offset, glyphBuffer, flag
  lo,              \* the page layout
  mgr,             \* [cur, max, num, last]: curPageNum, maxPageNum,
                   \*    numToRender, numLastRendered
  pg,              \* the .pg files that exist, by page number
  call,            \* [op, n, i, fwd]: the client's call and Display's loop
  st,              \* what the engine does next
  page,            \* the page being rendered
  newPage,         \* Display's local: it is rendered for the first time
  img,             \* "buffer" or "null": what Display returns
  held,            \* buffers handed to the client
  orphans,         \* buffers the engine keeps and nobody can free
  shown,           \* glyphs drawn on the page so far
  content,         \* history: what each page's latest first rendering drew
  seen             \* history: glyphs drawn by this session's first renderings

input   == <<mode, doc, size>>
files   == <<pg, content>>
frame   == <<call, page, newPage, img>>
buffers == <<held, orphans>>
drawn   == <<shown, seen>>
vars    == <<input, parser, lo, mgr, files, frame, st, buffers, drawn>>

NoCall == [op |-> "none", n |-> 0, i |-> 0, fwd |-> FALSE]
NoFiles == [p \in {} |-> <<>>]

FreshParserAtMinusOne == [off |-> -1, buf |-> <<>>, resume |-> FALSE]   \* mutant
FreshParser == [off |-> 0, buf |-> <<>>, resume |-> FALSE]
FreshMgr    == [cur |-> 0, max |-> NoMax, num |-> 0, last |-> 0]

Init ==
  /\ mode = "off" /\ doc \in Docs /\ size \in CharSizes
  /\ parser = FreshParser /\ lo = NewLayout /\ mgr = FreshMgr
  /\ pg = NoFiles /\ content = NoFiles
  /\ call = NoCall /\ st = "idle" /\ page = 0 /\ newPage = FALSE /\ img = "null"
  /\ held = 0 /\ orphans = 0
  /\ shown = <<>> /\ seen = {}

-----------------------------------------------------------------------------
(* Life of an engine.                                                       *)

\* HG_Init and HG_StartParse; all that is left of earlier engines is files.
Start(m) ==
  /\ mode = "off" /\ mode' = m /\ size' \in CharSizes
  /\ parser' = FreshParser /\ lo' = NewPage(NewLayout) /\ mgr' = FreshMgr
  /\ seen' = {}
  /\ UNCHANGED <<doc, files, frame, st, buffers, shown>>

\* HG_Term between calls, or the process dies inside one.
Stop ==
  /\ mode # "off" /\ mode' = "off"
  /\ call' = NoCall /\ st' = "idle" /\ page' = 0 /\ newPage' = FALSE
  /\ img' = "null" /\ held' = 0 /\ orphans' = 0 /\ shown' = <<>>
  /\ UNCHANGED <<doc, size, parser, lo, mgr, files, seen>>

-----------------------------------------------------------------------------
(* PageManager and DocState.                                                *)

\* File p is written: created, or overwritten.
Write(f, p, v) == [q \in DOMAIN f \cup {p} |-> IF q = p THEN v ELSE f[q]]

Complete(p) == p \in DOMAIN pg /\ pg[p].done

ShadowStateDone == [done |-> TRUE, off |-> parser.off, buf |-> parser.buf]   \* mutant

\* ShadowDocState, as StoreState writes it: the completion flag is off.
ShadowState == [done |-> FALSE, off |-> parser.off, buf |-> parser.buf]

StartPage(p) ==
  /\ pg' = Write(pg, p, ShadowState)
  /\ content' = Write(content, p, <<>>)
  /\ UNCHANGED <<parser, lo>>

RestoredKeepsGlyphs(p) ==                                                 \* mutant
  IF Complete(p) THEN [parser EXCEPT !.off = pg[p].off]
                 ELSE [parser EXCEPT !.off = 0, !.buf = <<>>]

\* RestorePage: a file that is missing or not complete recovers nothing, and
\* that is not reported: the parser then stands at the start of the document.
\* resumeProcWord is not part of the state.
Restored(p) ==
  IF Complete(p) THEN [parser EXCEPT !.off = pg[p].off, !.buf = pg[p].buf]
                 ELSE [parser EXCEPT !.off = 0, !.buf = <<>>]

RestorePageKeepsLayout(p) ==                                              \* mutant
  parser' = Restored(p) /\ UNCHANGED <<lo, files>>
RestorePage(p) == parser' = Restored(p) /\ lo' = Reset(lo) /\ UNCHANGED files

NextPageNum == IF mgr.cur + 1 <= mgr.max THEN mgr.cur + 1 ELSE mgr.cur

\* Rendering of page p begins.
Render(p) ==
  /\ page' = p /\ newPage' = (p = mgr.num) /\ st' = "draw" /\ img' = "null"
  /\ IF p = mgr.num THEN StartPage(p) ELSE RestorePage(p)
  /\ shown' = <<>> /\ UNCHANGED seen

EndPageUnfinished(m) ==                                                   \* mutant
  /\ mgr' = IF page = mgr.num THEN [m EXCEPT !.last = m.num, !.num = m.num + 1] ELSE m
  /\ UNCHANGED pg

\* EndPage counts and completes the page that was rendered for the first time.
EndPage(m) ==
  IF page = mgr.num
  THEN /\ mgr' = [m EXCEPT !.last = m.num, !.num = m.num + 1]
       /\ pg' = [pg EXCEPT ![page].done = TRUE]
  ELSE mgr' = m /\ UNCHANGED pg

-----------------------------------------------------------------------------
(* Calls.                                                                   *)

IsBeyondLast(n) == n >= mgr.max                                           \* mutant
IsBeyondNext(n) == n > mgr.max + 1                                        \* mutant

\* HG_GetPage beyond the last page returns NULL at once; nothing changes.
IsBeyond(n) == n > mgr.max

Allowed(n) == (n < mgr.num => LookBack) /\ (n > mgr.num => JumpAhead)

GetPage(n) ==
  /\ mode \in {"plain", "fast"} /\ st = "idle" /\ ~IsBeyond(n) /\ Allowed(n) /\ held < MaxHeld
  /\ call' = [op |-> "get", n |-> n, i |-> 0, fwd |-> FALSE]
  /\ st' = "display"
  /\ UNCHANGED <<input, parser, lo, mgr, files, page, newPage, img, buffers, drawn>>

\* HG_GetMaxPage: RenderAll displays pages until the last is known.
GetMaxPage ==
  /\ mode # "off" /\ st = "idle" /\ CountAll /\ mgr.max > 0
  /\ call' = [op |-> "all", n |-> 0, i |-> 0, fwd |-> FALSE]
  /\ st' = "display"
  /\ UNCHANGED <<input, parser, lo, mgr, files, page, newPage, img, buffers, drawn>>

\* Display of the next page or of an earlier one.
DisplayPage ==
  /\ st = "display" /\ call.n <= mgr.num
  /\ Render(call.n)
  /\ UNCHANGED <<input, mgr, call, buffers>>

\* Display of a page further on starts with the next page.
DisplayAhead ==
  /\ st = "display" /\ call.n > mgr.num
  /\ call' = [call EXCEPT !.i = mgr.num, !.fwd = TRUE]
  /\ Render(mgr.num)
  /\ UNCHANGED <<input, mgr, buffers>>

\* The buffer of a page displayed on the way is never handed to anyone.
Discard ==
  /\ orphans' = IF img = "buffer" /\ orphans < MaxHeld THEN orphans + 1 ELSE orphans
  /\ UNCHANGED held

AfterLastRendered == call.i >= mgr.last                                   \* mutant

\* if (i++ >= maxPageNum) return NULL
AfterLast == call.i >= mgr.max

AdvanceNot == call                                                        \* mutant
Advance == [call EXCEPT !.i = @ + 1]

\* while (i < page_num) Display(pgMgr.NextPage())
AheadLoop ==
  /\ st = "shown" /\ call.fwd /\ ~AfterLast /\ call.i + 1 < call.n
  /\ call' = Advance
  /\ mgr' = [mgr EXCEPT !.cur = NextPageNum]
  /\ Render(NextPageNum)
  /\ Discard
  /\ UNCHANGED input

\* return Display(i), with i = page_num
AheadLast ==
  /\ st = "shown" /\ call.fwd /\ ~AfterLast /\ call.i + 1 >= call.n
  /\ call' = [call EXCEPT !.fwd = FALSE]
  /\ st' = "display"
  /\ Discard
  /\ UNCHANGED <<input, parser, lo, mgr, files, page, newPage, img, drawn>>

\* The last page came before the one asked for: Display returns NULL.
AheadEnd ==
  /\ st = "shown" /\ call.fwd /\ AfterLast
  /\ img' = "null" /\ st' = "return"
  /\ Discard
  /\ UNCHANGED <<input, parser, lo, mgr, files, call, page, newPage, drawn>>

Displayed ==
  /\ st = "shown" /\ ~call.fwd /\ call.op # "serial"
  /\ st' = "return"
  /\ UNCHANGED <<input, parser, lo, mgr, files, frame, buffers, drawn>>

\* GetPage answers NULL if the document turned out shorter; otherwise it
\* looks the buffer up and asserts that it is there: if not, the process stops.
ReturnPage ==
  /\ st = "return" /\ call.op = "get"
  /\ IF IsBeyond(call.n) THEN Discard
     ELSE img = "buffer" /\ held' = held + 1 /\ UNCHANGED orphans
  /\ call' = NoCall /\ st' = "idle"
  /\ UNCHANGED <<input, parser, lo, mgr, files, page, newPage, img, drawn>>

\* RenderAll's loop; the buffers are dropped.
ReturnAll ==
  /\ st = "return" /\ call.op = "all"
  /\ Discard
  /\ IF call.n + 1 < mgr.max
     THEN call' = [call EXCEPT !.n = @ + 1] /\ st' = "display"
     ELSE call' = NoCall /\ st' = "idle"
  /\ UNCHANGED <<input, parser, lo, mgr, files, page, newPage, img, drawn>>

FreePage ==
  /\ st = "idle" /\ held > 0
  /\ held' = held - 1
  /\ UNCHANGED <<input, parser, lo, mgr, files, frame, st, orphans, drawn>>

\* SerializedDisplay: any page, from its file.
GetSerialized(p) ==
  /\ mode = "serial" /\ st = "idle" /\ held < MaxHeld
  /\ call' = [op |-> "serial", n |-> p, i |-> 0, fwd |-> FALSE]
  /\ page' = p /\ newPage' = FALSE /\ st' = "draw" /\ img' = "null"
  /\ RestorePage(p) /\ shown' = <<>>
  /\ UNCHANGED <<input, mgr, buffers, seen>>

ReturnSerialized ==
  /\ st = "shown" /\ call.op = "serial"
  /\ held' = held + 1 /\ call' = NoCall /\ st' = "idle"
  /\ UNCHANGED <<input, parser, lo, mgr, files, page, newPage, img, orphans, drawn>>

-----------------------------------------------------------------------------
(* Display's loop: glyphs are taken from the parser and set up.             *)

\* GetNextGlyph: the buffer is empty and the parser fills it.
FillBuffer ==
  /\ st = "draw" /\ parser.buf = <<>>
  /\ LET b == Fill(doc, parser.off, parser.resume)
     IN  /\ parser' = [off |-> b.off, buf |-> b.glyphs, resume |-> b.resume]
         /\ lo' = IF b.setsAttrib THEN [lo EXCEPT !.indent = Indent] ELSE lo
  /\ UNCHANGED <<input, mgr, files, frame, st, buffers, drawn>>

\* Char::Setup asks the layout for a place, or for a new line.
Place(g) == IF doc[g] \in LineBreaks THEN NewLine(lo) ELSE GetCharPos(lo, size, size, size)

TakesGlyph(g) == st = "draw" /\ parser.buf # <<>> /\ g = Head(parser.buf)

TakenNot == parser                                                        \* mutant
Taken == [parser EXCEPT !.buf = Tail(@)]

DrawGlyph(g) ==
  /\ TakesGlyph(g) /\ g # EofGlyph(doc)
  /\ Place(g).ret # "NEW_PAGE"
  /\ lo' = Place(g).lo
  /\ parser' = Taken
  /\ shown' = Append(shown, g)
  /\ IF newPage THEN /\ content' = [content EXCEPT ![page] = Append(@, g)]
                     /\ seen' = seen \cup {g}
                ELSE UNCHANGED <<content, seen>>
  /\ UNCHANGED <<input, mgr, pg, frame, st, buffers>>

\* Flush: fast page sum makes no buffer, nor does Display in serialized mode.
PageDone ==
  /\ st' = "shown"
  /\ img' = IF mode = "plain" \/ call.op = "serial" THEN "buffer" ELSE "null"
  /\ UNCHANGED <<input, call, page, newPage, buffers, content, drawn>>

GivenBackNever == Taken                                                   \* mutant

\* Only a page rendered for the first time gives the glyph that did not fit
\* back to the parser.
GivenBack == IF newPage THEN parser ELSE Taken

\* The glyph does not fit: the page ends, and Setup has reset the layout.
BreakPage(g) ==
  /\ TakesGlyph(g) /\ g # EofGlyph(doc)
  /\ Place(g).ret = "NEW_PAGE"
  /\ lo' = Reset(Place(g).lo)
  /\ parser' = GivenBack
  /\ IF call.op = "serial" THEN UNCHANGED <<mgr, pg>> ELSE EndPage(mgr)
  /\ PageDone

\* Eof: the page being shown becomes the last one.
EndDocument(g) ==
  /\ TakesGlyph(g) /\ g = EofGlyph(doc)
  /\ parser' = Taken /\ UNCHANGED lo
  /\ IF call.op = "serial" THEN UNCHANGED <<mgr, pg>>
                           ELSE EndPage([mgr EXCEPT !.max = page])
  /\ PageDone

Glyphs == 1 .. EofGlyph(doc)

Engine ==
  \/ DisplayPage \/ DisplayAhead \/ AheadLoop \/ AheadLast \/ AheadEnd
  \/ Displayed \/ ReturnPage \/ ReturnAll \/ ReturnSerialized \/ FillBuffer
  \/ \E g \in Glyphs : DrawGlyph(g) \/ BreakPage(g) \/ EndDocument(g)

Client ==
  \/ GetMaxPage \/ FreePage \/ Stop
  \/ \E n \in 0 .. MaxPage : GetPage(n) \/ GetSerialized(n)
  \/ \E m \in Modes : Start(m)

Next == Engine \/ Client

Spec == Init /\ [][Next]_vars

\* Inside a call the engine's thread keeps running unless the process dies.
FairSpec == Spec /\ WF_vars(Engine)
-----------------------------------------------------------------------------
(* Properties.                                                              *)

ParserType == [off : Nat, buf : Seq(Nat), resume : BOOLEAN]
MgrType    == [cur : Nat, max : Nat, num : Nat, last : Nat]
CallType   == [op : {"none", "get", "all", "serial"}, n : Nat, i : Nat, fwd : BOOLEAN]
FileType   == [done : BOOLEAN, off : Nat, buf : Seq(Nat)]

FilesOK ==
  /\ DOMAIN pg = DOMAIN content /\ DOMAIN pg \subseteq Nat
  /\ \A p \in DOMAIN pg : pg[p] \in FileType /\ content[p] \in Seq(Nat)

\* Types of the state.
TypeOK ==
  /\ mode \in Modes \cup {"off"} /\ doc \in Docs /\ size \in CharSizes
  /\ st \in {"idle", "display", "draw", "shown", "return"}
  /\ parser \in ParserType /\ lo \in Layout /\ mgr \in MgrType /\ call \in CallType
  /\ page \in Nat /\ newPage \in BOOLEAN /\ img \in {"buffer", "null"}
  /\ held \in Nat /\ orphans \in Nat
  /\ shown \in Seq(Nat) /\ seen \subseteq Nat
  /\ FilesOK

\* What the parser hands out next, or the end if it must read first.
Upcoming == IF parser.buf = <<>> THEN EofGlyph(doc) ELSE Head(parser.buf)

\* The pages of one reading tile the document: when a page that is rendered
\* for the first time is finished, the glyphs drawn so far are exactly those
\* before the one the parser stands at (Display's UngetSet, ShadowDocState).
TextKept ==
  st = "shown" /\ newPage =>
    seen = {k \in ShownTokens(doc) : k < Upcoming}

\* The files of the pages behind the last counted one are complete: what
\* RestorePage relies on when it does not look at RecoverState's answer.
CountedPagesComplete == \A p \in 0 .. mgr.num - 1 : Complete(p)

\* Complete files of adjacent pages, whichever engine wrote them, meet without
\* a gap or an overlap: serialized mode turns the pages over by their files.
FilesTile ==
  \A p \in DOMAIN pg :
    /\ Complete(p) /\ Complete(p + 1)
    /\ content[p] # <<>> /\ content[p + 1] # <<>>
    => LET last == content[p][Len(content[p])]
       IN  {k \in ShownTokens(doc) : last < k /\ k <= content[p + 1][1]} = {content[p + 1][1]}

\* A complete page that is shown again begins where it began, up to blanks
\* (the parser's resumeProcWord is not part of DocState).
ReplayStarts ==
  st = "shown" /\ ~newPage /\ shown # <<>> /\ Complete(page) /\ content[page] # <<>> =>
    \A k \in DOMAIN doc :
      \/ content[page][1] <= k /\ k < shown[1]
      \/ shown[1] <= k /\ k < content[page][1]
      => doc[k] \in BlankChars \cup {"L"}

\* A page that is shown again shows the same glyphs.
SamePage ==
  st = "shown" /\ ~newPage /\ Complete(page) => shown = content[page]

\* The page shown is the page asked for: never the document's first page
\* under another number (SerializedDisplay, RestorePage).
AskedPage == st = "shown" /\ ~newPage => Complete(page)

\* GetPage's assert(ret == true): the buffer it looks up is there.
AssertHolds == st = "return" /\ call.op = "get" /\ call.n <= mgr.max => img = "buffer"

\* Every buffer the engine allocates reaches the client (hg.h: "Memory of
\* rendered framebuffer is managed by the client").
NoOrphans == orphans = 0

\* Once the last page is known, it stays the last page.
LastPageStays ==
  [][mode # "off" /\ mode' # "off" /\ mgr.max # NoMax => mgr'.max = mgr.max]_vars

\* HG_GetMaxPage returns the number of pages (hg.h: "Total page number").
MaxPageIsTotal == mgr.max # NoMax => mgr.max = mgr.num

\* A call returns, if the process lives.
CallsReturn == st # "idle" ~> st = "idle"

\* To a reader who only turns to the next page the engine is the book that
\* hg.h promises, whichever engines stopped or died before.
Reading == INSTANCE Book WITH
  Texts <- {ShownTokens(d) : d \in Docs}, text <- ShownTokens(doc),
  open <- mode # "off", sheet <- IF newPage THEN shown ELSE <<>>, read <- seen,
  pages <- mgr.num, ended <- mgr.max # NoMax
ShowsBook == Reading!Spec
=============================================================================
