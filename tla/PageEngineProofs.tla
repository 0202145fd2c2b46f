--------------------------- MODULE PageEngineProofs ---------------------------
(***************************************************************************)
(* Proofs about module PageEngine, for every set of documents, every page  *)
(* geometry and every client.                                              *)
(***************************************************************************)
EXTENDS PageEngine, TextLayoutProofs, SequenceTheorems, TLAPS

-----------------------------------------------------------------------------
(* Types.                                                                   *)

LEMMA ParserFields ==
  ASSUME NEW p \in ParserType
  PROVE  /\ p.off \in Nat /\ p.buf \in Seq(Nat) /\ p.resume \in BOOLEAN
         /\ \A o \in Nat : [p EXCEPT !.off = o] \in ParserType
         /\ \A b \in Seq(Nat) : [p EXCEPT !.buf = b] \in ParserType
         /\ \A o \in Nat, b \in Seq(Nat) : [p EXCEPT !.off = o, !.buf = b] \in ParserType
<1>1. p.off \in Nat /\ p.buf \in Seq(Nat) /\ p.resume \in BOOLEAN
      BY DEF ParserType
<1>2. ASSUME NEW o \in Nat PROVE [p EXCEPT !.off = o] \in ParserType
      BY DEF ParserType
<1>3. ASSUME NEW b \in Seq(Nat) PROVE [p EXCEPT !.buf = b] \in ParserType
      BY DEF ParserType
<1>4. ASSUME NEW o \in Nat, NEW b \in Seq(Nat)
      PROVE  [p EXCEPT !.off = o, !.buf = b] \in ParserType
  <2> DEFINE q == [p EXCEPT !.off = o]
  <2>1. q \in ParserType
        BY <1>2
  <2> HIDE DEF q
  <2>2. [q EXCEPT !.buf = b] \in ParserType
        BY <2>1 DEF ParserType
  <2> QED BY <2>2 DEF q
<1> QED BY <1>1, <1>2, <1>3, <1>4

LEMMA MgrFields ==
  ASSUME NEW m \in MgrType
  PROVE  /\ m.cur \in Nat /\ m.max \in Nat /\ m.num \in Nat /\ m.last \in Nat
         /\ \A k \in Nat : [m EXCEPT !.cur = k] \in MgrType
         /\ \A k \in Nat : [m EXCEPT !.max = k] \in MgrType
         /\ [m EXCEPT !.last = m.num, !.num = m.num + 1] \in MgrType
<1>1. m.cur \in Nat /\ m.max \in Nat /\ m.num \in Nat /\ m.last \in Nat
      BY DEF MgrType
<1>2. ASSUME NEW k \in Nat PROVE [m EXCEPT !.cur = k] \in MgrType
      BY DEF MgrType
<1>3. ASSUME NEW k \in Nat PROVE [m EXCEPT !.max = k] \in MgrType
      BY DEF MgrType
<1>4. [m EXCEPT !.last = m.num, !.num = m.num + 1] \in MgrType
  <2> DEFINE k == [m EXCEPT !.last = m.num]
  <2>1. k \in MgrType /\ m.num + 1 \in Nat
        BY <1>1 DEF MgrType
  <2> HIDE DEF k
  <2>2. [k EXCEPT !.num = m.num + 1] \in MgrType
        BY <2>1 DEF MgrType
  <2> QED BY <2>2 DEF k
<1> QED BY <1>1, <1>2, <1>3, <1>4

LEMMA RestoredType ==
  ASSUME TypeOK, NEW p \in Nat
  PROVE  Restored(p) \in ParserType
<1>1. CASE Complete(p)
  <2>1. pg[p].off \in Nat /\ pg[p].buf \in Seq(Nat)
        BY <1>1 DEF Complete, TypeOK, FilesOK, FileType
  <2> QED BY <1>1, <2>1, ParserFields DEF Restored, TypeOK
<1>2. CASE ~Complete(p)
  <2>1. <<>> \in Seq(Nat)
        OBVIOUS
  <2> QED BY <1>2, <2>1, ParserFields DEF Restored, TypeOK
<1> QED BY <1>1, <1>2

LEMMA StartPageType ==
  ASSUME TypeOK, NEW p \in Nat, StartPage(p)
  PROVE  FilesOK'
<1>1. ShadowState \in FileType
      BY ParserFields DEF ShadowState, FileType, TypeOK
<1>2. <<>> \in Seq(Nat)
      OBVIOUS
<1>3. /\ DOMAIN pg' = DOMAIN pg \cup {p}
      /\ DOMAIN content' = DOMAIN content \cup {p}
      /\ \A q \in DOMAIN pg' : /\ pg'[q] = IF q = p THEN ShadowState ELSE pg[q]
      /\ \A q \in DOMAIN content' : content'[q] = IF q = p THEN <<>> ELSE content[q]
      BY DEF StartPage, Write
<1> QED BY <1>1, <1>2, <1>3 DEF TypeOK, FilesOK

LEMMA RenderType ==
  ASSUME TypeOK, NEW p \in Nat, Render(p)
  PROVE  /\ page' \in Nat /\ newPage' \in BOOLEAN /\ st' = "draw" /\ img' = "null"
         /\ shown' \in Seq(Nat) /\ seen' = seen
         /\ parser' \in ParserType /\ lo' \in Layout /\ FilesOK'
<1>1. /\ page' \in Nat /\ st' = "draw" /\ img' = "null" /\ seen' = seen
      /\ shown' = <<>> /\ newPage' = (p = mgr.num)
      BY DEF Render
<1>2. CASE p = mgr.num
      BY <1>2, StartPageType DEF Render, StartPage, TypeOK
<1>3. CASE p # mgr.num
  <2>1. parser' = Restored(p) /\ lo' = Reset(lo) /\ pg' = pg /\ content' = content
        BY <1>3 DEF Render, RestorePage, files
  <2>2. FilesOK'
        BY <2>1 DEF TypeOK, FilesOK
  <2>3. parser' \in ParserType /\ lo' \in Layout
        BY <2>1, RestoredType, ResetType DEF TypeOK
  <2> QED BY <1>1, <2>2, <2>3
<1>4. newPage' \in BOOLEAN /\ shown' \in Seq(Nat)
      BY <1>1
<1> QED BY <1>1, <1>2, <1>3, <1>4 DEF FilesOK

\* Completing a file keeps the others.
LEMMA CompletedFile ==
  ASSUME TypeOK, NEW p \in DOMAIN pg, pg' = [pg EXCEPT ![p].done = TRUE]
  PROVE  /\ DOMAIN pg' = DOMAIN pg
         /\ \A q \in DOMAIN pg : pg'[q] \in FileType
         /\ pg'[p].done
         /\ \A q \in DOMAIN pg : pg[q].done => pg'[q].done
BY DEF TypeOK, FilesOK, FileType

LEMMA EndPageType ==
  ASSUME TypeOK, NEW m \in MgrType, EndPage(m), content' = content
  PROVE  mgr' \in MgrType /\ FilesOK'
<1>1. CASE page = mgr.num /\ page \in DOMAIN pg
      BY <1>1, MgrFields, CompletedFile DEF EndPage, TypeOK, FilesOK
<1>2. CASE page = mgr.num /\ page \notin DOMAIN pg
  <2>1. /\ DOMAIN pg' = DOMAIN pg
        /\ \A q \in DOMAIN pg : pg'[q] = pg[q]
        BY <1>2 DEF EndPage, TypeOK, FilesOK
  <2> QED BY <1>2, <2>1, MgrFields DEF EndPage, TypeOK, FilesOK
<1>3. CASE page # mgr.num
      BY <1>3 DEF EndPage, TypeOK, FilesOK
<1> QED BY <1>1, <1>2, <1>3

LEMMA CallFields ==
  ASSUME NEW c \in CallType
  PROVE  /\ c.n \in Nat /\ c.i \in Nat /\ c.fwd \in BOOLEAN
         /\ c.op \in {"none", "get", "all", "serial"}
         /\ \A k \in Nat : [c EXCEPT !.i = k, !.fwd = TRUE] \in CallType
         /\ [c EXCEPT !.i = c.i + 1] \in CallType
         /\ [c EXCEPT !.n = c.n + 1] \in CallType
         /\ [c EXCEPT !.fwd = FALSE] \in CallType
<1>1. /\ c.n \in Nat /\ c.i \in Nat /\ c.fwd \in BOOLEAN
      /\ c.op \in {"none", "get", "all", "serial"}
      BY DEF CallType
<1>2. ASSUME NEW k \in Nat PROVE [c EXCEPT !.i = k, !.fwd = TRUE] \in CallType
  <2> DEFINE d == [c EXCEPT !.i = k]
  <2>1. d \in CallType
        BY DEF CallType
  <2> HIDE DEF d
  <2>2. [d EXCEPT !.fwd = TRUE] \in CallType
        BY <2>1 DEF CallType
  <2> QED BY <2>2 DEF d
<1>3. [c EXCEPT !.i = c.i + 1] \in CallType
      BY DEF CallType
<1>4. [c EXCEPT !.n = c.n + 1] \in CallType
      BY DEF CallType
<1>5. [c EXCEPT !.fwd = FALSE] \in CallType
      BY DEF CallType
<1> QED BY <1>1, <1>2, <1>3, <1>4, <1>5

LEMMA NewCallType ==
  /\ NoCall \in CallType
  /\ \A o \in {"get", "all", "serial"}, n \in Nat :
       [op |-> o, n |-> n, i |-> 0, fwd |-> FALSE] \in CallType
BY DEF NoCall, CallType

LEMMA SameFiles == ASSUME FilesOK, UNCHANGED files PROVE FilesOK'
BY DEF FilesOK, files

LEMMA DiscardType == ASSUME TypeOK, Discard PROVE orphans' \in Nat /\ held' \in Nat
BY DEF TypeOK, Discard

LEMMA TypeInit == Init => TypeOK
<1> SUFFICES ASSUME Init PROVE TypeOK
    OBVIOUS
<1>1. FilesOK
      BY DEF Init, NoFiles, FilesOK
<1>2. parser \in ParserType /\ shown \in Seq(Nat)
  <2>1. <<>> \in Seq(Nat)
        OBVIOUS
  <2> QED BY <2>1 DEF Init, FreshParser, ParserType
<1>3. mgr \in MgrType
      BY DEF Init, FreshMgr, MgrType, NoMax
<1>4. call \in CallType /\ lo \in Layout
      BY NewCallType, NewLayoutType DEF Init
<1> QED BY <1>1, <1>2, <1>3, <1>4 DEF Init, TypeOK

LEMMA ClientTypes ==
  ASSUME TypeOK, Client
  PROVE  TypeOK'
<1>1. ASSUME NEW m \in Modes, Start(m) PROVE TypeOK'
  <2>1. mode' = m /\ size' \in CharSizes /\ doc' = doc /\ seen' = {} /\ shown' = shown
        BY <1>1 DEF Start
  <2>2. UNCHANGED <<call, page, newPage, img, held, orphans, st, pg, content>>
        BY <1>1 DEF Start, frame, buffers, files
  <2>3. parser' \in ParserType
    <3>1. <<>> \in Seq(Nat)
          OBVIOUS
    <3> QED BY <1>1, <3>1 DEF Start, FreshParser, ParserType
  <2>4. mgr' \in MgrType /\ lo' \in Layout
        BY <1>1, FirstPageType DEF Start, FreshMgr, MgrType, NoMax
  <2>5. FilesOK'
        BY <2>2, SameFiles DEF TypeOK, files
  <2> QED BY <2>1, <2>2, <2>3, <2>4, <2>5 DEF TypeOK
<1>2. CASE Stop
  <2>1. <<>> \in Seq(Nat)
        OBVIOUS
  <2>2. FilesOK'
        BY <1>2, SameFiles DEF Stop, TypeOK
  <2> QED BY <1>2, <2>1, <2>2, NewCallType DEF Stop, TypeOK
<1>3. ASSUME NEW n \in 0 .. MaxPage, GetPage(n) PROVE TypeOK'
  <2>1. call' \in CallType /\ st' = "display"
        BY <1>3, NewCallType, EngineAssumption DEF GetPage, EngineAssumption
  <2>2. FilesOK'
        BY <1>3, SameFiles DEF GetPage, TypeOK
  <2> QED BY <1>3, <2>1, <2>2 DEF GetPage, TypeOK, input, buffers, drawn
<1>4. CASE GetMaxPage
  <2>1. call' \in CallType /\ st' = "display"
        BY <1>4, NewCallType DEF GetMaxPage
  <2>2. FilesOK'
        BY <1>4, SameFiles DEF GetMaxPage, TypeOK
  <2> QED BY <1>4, <2>1, <2>2 DEF GetMaxPage, TypeOK, input, buffers, drawn
<1>5. CASE FreePage
  <2>1. held' \in Nat
        BY <1>5 DEF FreePage, TypeOK
  <2>2. FilesOK'
        BY <1>5, SameFiles DEF FreePage, TypeOK
  <2> QED BY <1>5, <2>1, <2>2 DEF FreePage, TypeOK, input, frame, drawn
<1>6. ASSUME NEW n \in 0 .. MaxPage, GetSerialized(n) PROVE TypeOK'
  <2>0. n \in Nat
        BY EngineAssumption DEF EngineAssumption
  <2>1. call' \in CallType /\ st' = "draw" /\ page' \in Nat
        BY <1>6, <2>0, NewCallType DEF GetSerialized
  <2>2. parser' \in ParserType /\ lo' \in Layout
        BY <1>6, <2>0, RestoredType, ResetType DEF GetSerialized, RestorePage, TypeOK
  <2>3. FilesOK'
        BY <1>6, SameFiles DEF GetSerialized, RestorePage, TypeOK
  <2>4. shown' \in Seq(Nat) /\ newPage' = FALSE /\ img' = "null"
        BY <1>6 DEF GetSerialized
  <2>5. UNCHANGED <<mode, doc, size, mgr, held, orphans, seen>>
        BY <1>6 DEF GetSerialized, input, buffers
  <2> QED BY <2>1, <2>2, <2>3, <2>4, <2>5 DEF TypeOK
<1> QED BY <1>1, <1>2, <1>3, <1>4, <1>5, <1>6 DEF Client

LEMMA PlaceType ==
  ASSUME TypeOK, NEW g
  PROVE  Place(g).lo \in Layout
<1>1. lo \in Layout /\ size \in Int
      BY EngineAssumption DEF EngineAssumption, TypeOK
<1> QED BY <1>1, NewLineType, GetCharPosType DEF Place

LEMMA TakenType ==
  ASSUME TypeOK, NEW g, TakesGlyph(g)
  PROVE  Taken \in ParserType /\ GivenBack \in ParserType /\ g \in Nat
<1>1. parser \in ParserType /\ parser.buf \in Seq(Nat) /\ parser.buf # <<>>
      BY ParserFields DEF TypeOK, TakesGlyph
<1>2. Tail(parser.buf) \in Seq(Nat) /\ Head(parser.buf) \in Nat
      BY <1>1, HeadTailProperties
<1>3. Taken \in ParserType
      BY <1>1, <1>2, ParserFields DEF Taken
<1> QED BY <1>1, <1>2, <1>3 DEF GivenBack, TakesGlyph

LEMMA LoopTypes ==
  ASSUME TypeOK, NEW g, FillBuffer \/ DrawGlyph(g) \/ BreakPage(g) \/ EndDocument(g)
  PROVE  TypeOK'
<1>1. CASE FillBuffer
  <2> DEFINE b == Fill(doc, parser.off, parser.resume)
  <2>1. doc \in Seq(Token) /\ WordMax \in Nat /\ Indent \in Int
        BY EngineAssumption DEF EngineAssumption, TypeOK
  <2>2. b \in BatchType
        BY <2>1, FillType, ParserFields DEF TypeOK
  <2>3. /\ parser' = [off |-> b.off, buf |-> b.glyphs, resume |-> b.resume]
        /\ lo' = IF b.setsAttrib THEN [lo EXCEPT !.indent = Indent] ELSE lo
        BY <1>1 DEF FillBuffer
  <2> HIDE DEF b
  <2>4. parser' \in ParserType
        BY <2>2, <2>3 DEF BatchType, ParserType
  <2>5. lo' \in Layout
        BY <2>1, <2>3 DEF TypeOK, Layout
  <2>6. FilesOK'
        BY <1>1, SameFiles DEF FillBuffer, TypeOK
  <2> QED BY <1>1, <2>4, <2>5, <2>6 DEF FillBuffer, TypeOK, input, frame, buffers, drawn
<1>2. CASE DrawGlyph(g)
  <2>1. parser' \in ParserType /\ lo' \in Layout /\ g \in Nat
        BY <1>2, TakenType, PlaceType DEF DrawGlyph
  <2>2. shown' \in Seq(Nat)
        BY <1>2, <2>1, AppendProperties DEF DrawGlyph, TypeOK
  <2>3. UNCHANGED <<mode, doc, size, mgr, pg, call, page, newPage, img, st, held, orphans>>
        BY <1>2 DEF DrawGlyph, input, frame, buffers
  <2>4. seen' \subseteq Nat
        BY <1>2, <2>1 DEF DrawGlyph, TypeOK
  <2>5. CASE newPage /\ page \in DOMAIN content
    <3>1. content' = [content EXCEPT ![page] = Append(content[page], g)]
          BY <1>2, <2>5 DEF DrawGlyph
    <3>2. Append(content[page], g) \in Seq(Nat)
          BY <2>1, <2>5, AppendProperties DEF TypeOK, FilesOK
    <3>3. FilesOK'
          BY <2>3, <3>1, <3>2 DEF TypeOK, FilesOK
    <3> QED BY <2>1, <2>2, <2>3, <2>4, <3>3 DEF TypeOK
  <2>6. CASE newPage /\ page \notin DOMAIN content
    <3>1. DOMAIN content' = DOMAIN content /\ \A p \in DOMAIN content : content'[p] = content[p]
          BY <1>2, <2>6 DEF DrawGlyph
    <3>2. FilesOK'
          BY <2>3, <3>1 DEF TypeOK, FilesOK
    <3> QED BY <2>1, <2>2, <2>3, <2>4, <3>2 DEF TypeOK
  <2>7. CASE ~newPage
    <3>1. FilesOK'
          BY <1>2, <2>3, <2>7 DEF DrawGlyph, TypeOK, FilesOK
    <3> QED BY <2>1, <2>2, <2>3, <2>4, <3>1 DEF TypeOK
  <2> QED BY <2>5, <2>6, <2>7
<1>3. CASE BreakPage(g)
  <2>1. parser' \in ParserType /\ lo' \in Layout
        BY <1>3, TakenType, PlaceType, ResetType DEF BreakPage
  <2>2. /\ st' = "shown" /\ img' \in {"buffer", "null"}
        /\ UNCHANGED <<mode, doc, size, call, page, newPage, held, orphans, content, shown, seen>>
        BY <1>3 DEF BreakPage, PageDone, input, buffers, drawn
  <2>3. mgr' \in MgrType /\ FilesOK'
    <3>1. CASE call.op = "serial"
          BY <1>3, <2>2, <3>1 DEF BreakPage, TypeOK, FilesOK
    <3>2. CASE call.op # "serial"
          BY <1>3, <2>2, <3>2, EndPageType DEF BreakPage, TypeOK
    <3> QED BY <3>1, <3>2
  <2> QED BY <2>1, <2>2, <2>3 DEF TypeOK
<1>4. CASE EndDocument(g)
  <2>1. parser' \in ParserType /\ lo' \in Layout
        BY <1>4, TakenType DEF EndDocument, TypeOK
  <2>2. /\ st' = "shown" /\ img' \in {"buffer", "null"}
        /\ UNCHANGED <<mode, doc, size, call, page, newPage, held, orphans, content, shown, seen>>
        BY <1>4 DEF EndDocument, PageDone, input, buffers, drawn
  <2>3. mgr' \in MgrType /\ FilesOK'
    <3>1. CASE call.op = "serial"
          BY <1>4, <2>2, <3>1 DEF EndDocument, TypeOK, FilesOK
    <3>2. CASE call.op # "serial"
      <4>1. [mgr EXCEPT !.max = page] \in MgrType
            BY MgrFields DEF TypeOK
      <4> QED BY <1>4, <2>2, <3>2, <4>1, EndPageType DEF EndDocument
    <3> QED BY <3>1, <3>2
  <2> QED BY <2>1, <2>2, <2>3 DEF TypeOK
<1> QED BY <1>1, <1>2, <1>3, <1>4

LEMMA CallTypes ==
  ASSUME TypeOK, \/ DisplayPage \/ DisplayAhead \/ AheadLoop \/ AheadLast \/ AheadEnd
                 \/ Displayed \/ ReturnPage \/ ReturnAll \/ ReturnSerialized
  PROVE  TypeOK'
<1>0. call.n \in Nat /\ mgr.num \in Nat /\ NextPageNum \in Nat
  <2>1. mgr.cur \in Nat /\ mgr.num \in Nat /\ mgr.max \in Nat
        BY MgrFields DEF TypeOK
  <2>2. call.n \in Nat
        BY CallFields DEF TypeOK
  <2> QED BY <2>1, <2>2 DEF NextPageNum
<1>1. CASE DisplayPage
  <2>1. Render(call.n) /\ UNCHANGED <<mode, doc, size, mgr, call, held, orphans>>
        BY <1>1 DEF DisplayPage, input, buffers
  <2> QED BY <1>0, <2>1, RenderType DEF TypeOK
<1>2. CASE DisplayAhead
  <2>1. Render(mgr.num) /\ UNCHANGED <<mode, doc, size, mgr, held, orphans>>
        BY <1>2 DEF DisplayAhead, input, buffers
  <2>2. call' \in CallType
        BY <1>0, <1>2, CallFields DEF DisplayAhead, TypeOK
  <2> QED BY <1>0, <2>1, <2>2, RenderType DEF TypeOK
<1>3. CASE AheadLoop
  <2>1. Render(NextPageNum) /\ Discard /\ UNCHANGED <<mode, doc, size>>
        BY <1>3 DEF AheadLoop, input
  <2>2. call' \in CallType /\ mgr' \in MgrType
        BY <1>0, <1>3, CallFields, MgrFields DEF AheadLoop, Advance, TypeOK
  <2> QED BY <1>0, <2>1, <2>2, RenderType, DiscardType DEF TypeOK
<1>4. CASE AheadLast
  <2>1. call' \in CallType /\ st' = "display" /\ Discard
        BY <1>4, CallFields DEF AheadLast, TypeOK
  <2>2. FilesOK'
        BY <1>4, SameFiles DEF AheadLast, TypeOK
  <2> QED BY <1>4, <2>1, <2>2, DiscardType DEF AheadLast, TypeOK, input, drawn
<1>5. CASE AheadEnd
  <2>1. FilesOK' /\ Discard
        BY <1>5, SameFiles DEF AheadEnd, TypeOK
  <2> QED BY <1>5, <2>1, DiscardType DEF AheadEnd, TypeOK, input, drawn
<1>6. CASE Displayed
  <2>1. FilesOK'
        BY <1>6, SameFiles DEF Displayed, TypeOK
  <2> QED BY <1>6, <2>1 DEF Displayed, TypeOK, input, frame, buffers, drawn
<1>7. CASE ReturnPage
  <2>1. FilesOK'
        BY <1>7, SameFiles DEF ReturnPage, TypeOK
  <2>2. held' \in Nat /\ orphans' \in Nat
    <3>1. CASE IsBeyond(call.n)
          BY <1>7, <3>1, DiscardType DEF ReturnPage
    <3>2. CASE ~IsBeyond(call.n)
          BY <1>7, <3>2 DEF ReturnPage, TypeOK
    <3> QED BY <3>1, <3>2
  <2> QED BY <1>7, <2>1, <2>2, NewCallType DEF ReturnPage, TypeOK, input, drawn
<1>8. CASE ReturnAll
  <2>1. FilesOK' /\ Discard
        BY <1>8, SameFiles DEF ReturnAll, TypeOK
  <2>2. call' \in CallType /\ st' \in {"display", "idle"}
    <3>1. CASE call.n + 1 < mgr.max
          BY <1>8, <3>1, CallFields DEF ReturnAll, TypeOK
    <3>2. CASE ~(call.n + 1 < mgr.max)
          BY <1>8, <3>2, NewCallType DEF ReturnAll
    <3> QED BY <3>1, <3>2
  <2> QED BY <1>8, <2>1, <2>2, DiscardType DEF ReturnAll, TypeOK, input, drawn
<1>9. CASE ReturnSerialized
  <2>1. FilesOK' /\ held' \in Nat
        BY <1>9, SameFiles DEF ReturnSerialized, TypeOK
  <2> QED BY <1>9, <2>1, NewCallType DEF ReturnSerialized, TypeOK, input, drawn
<1> QED BY <1>1, <1>2, <1>3, <1>4, <1>5, <1>6, <1>7, <1>8, <1>9

LEMMA TypeStep == TypeOK /\ [Next]_vars => TypeOK'
<1> SUFFICES ASSUME TypeOK, [Next]_vars PROVE TypeOK'
    OBVIOUS
<1>1. CASE Engine
      BY <1>1, CallTypes, LoopTypes DEF Engine
<1>2. CASE Client
      BY <1>2, ClientTypes
<1>3. CASE UNCHANGED vars
  <2>1. FilesOK'
        BY <1>3, SameFiles DEF TypeOK, vars
  <2> QED BY <1>3, <2>1 DEF vars, input, frame, buffers, drawn, TypeOK
<1> QED BY <1>1, <1>2, <1>3 DEF Next

\* The engine's state keeps its types under every client, for every geometry:
\* the layout's arithmetic and the parser's batches never leave their ranges.
THEOREM TypeCorrect == Spec => []TypeOK
BY TypeInit, TypeStep, PTL DEF Spec

-----------------------------------------------------------------------------
(* The pages behind the last counted one have complete files.  Inductively: *)
(* while a page is drawn, it is the next page to be counted exactly if      *)
(* Display holds it for new, and then its file has been started.            *)

CompleteInv ==
  /\ mode = "off" => st = "idle"
  /\ st = "draw" /\ newPage => page = mgr.num /\ page \in DOMAIN pg
  /\ st = "draw" /\ page = mgr.num => newPage \/ call.op = "serial"
  /\ CountedPagesComplete

LEMMA SameCounted ==
  ASSUME CountedPagesComplete, UNCHANGED <<mgr, pg>>
  PROVE  CountedPagesComplete'
BY DEF CountedPagesComplete, Complete

\* Starting the next page overwrites no counted page's file.
LEMMA RenderKeepsCounted ==
  ASSUME TypeOK, CountedPagesComplete, NEW p \in Nat, Render(p), mgr'.num = mgr.num
  PROVE  /\ CountedPagesComplete'
         /\ newPage' => page' = mgr'.num /\ page' \in DOMAIN pg'
         /\ page' = mgr'.num => newPage'
<1>0. mgr.num \in Nat
      BY MgrFields DEF TypeOK
<1>1. page' = p /\ newPage' = (p = mgr.num)
      BY DEF Render
<1>2. CASE p = mgr.num
  <2>1. /\ DOMAIN pg' = DOMAIN pg \cup {p}
        /\ \A q \in DOMAIN pg : q # p => pg'[q] = pg[q]
        BY <1>2 DEF Render, StartPage, Write
  <2>2. \A q \in 0 .. mgr.num - 1 : q # p /\ q \in DOMAIN pg /\ pg[q].done
        BY <1>0, <1>2 DEF CountedPagesComplete, Complete
  <2>3. CountedPagesComplete'
        BY <2>1, <2>2 DEF CountedPagesComplete, Complete
  <2> QED BY <1>1, <1>2, <2>1, <2>3
<1>3. CASE p # mgr.num
  <2>1. pg' = pg
        BY <1>3 DEF Render, RestorePage, files
  <2> QED BY <1>0, <1>1, <1>3, <2>1 DEF CountedPagesComplete, Complete
<1> QED BY <1>2, <1>3

\* Counting a page completes its file.
LEMMA EndPageCompletes ==
  ASSUME TypeOK, CompleteInv, st = "draw", call.op # "serial",
         NEW m \in MgrType, m.num = mgr.num, EndPage(m)
  PROVE  CountedPagesComplete'
<1>0. mgr.num \in Nat
      BY MgrFields DEF TypeOK
<1>1. CASE page = mgr.num
  <2>1. page \in DOMAIN pg /\ pg' = [pg EXCEPT ![page].done = TRUE]
        BY <1>1 DEF CompleteInv, EndPage
  <2>2. mgr'.num = mgr.num + 1
        BY <1>1 DEF EndPage, MgrType
  <2>3. /\ DOMAIN pg' = DOMAIN pg /\ pg'[page].done
        /\ \A q \in DOMAIN pg : pg[q].done => pg'[q].done
        BY <2>1, CompletedFile
  <2>4. \A q \in 0 .. mgr.num - 1 : q \in DOMAIN pg /\ pg[q].done
        BY DEF CompleteInv, CountedPagesComplete, Complete
  <2>5. \A q \in 0 .. (mgr.num + 1) - 1 : q \in DOMAIN pg' /\ pg'[q].done
    <3>1. TAKE q \in 0 .. (mgr.num + 1) - 1
    <3>2. q = page \/ q \in 0 .. mgr.num - 1
          BY <1>0, <1>1
    <3> QED BY <2>1, <2>3, <2>4, <3>2
  <2> QED BY <2>2, <2>5 DEF CountedPagesComplete, Complete
<1>2. CASE page # mgr.num
  <2>1. mgr' = m /\ pg' = pg
        BY <1>2 DEF EndPage
  <2> QED BY <2>1 DEF CompleteInv, CountedPagesComplete, Complete
<1> QED BY <1>1, <1>2

LEMMA CompleteInit == Init => CompleteInv
<1> SUFFICES ASSUME Init PROVE CompleteInv
    OBVIOUS
<1>1. mgr.num = 0
      BY DEF Init, FreshMgr
<1> QED BY <1>1 DEF Init, CompleteInv, CountedPagesComplete

LEMMA CompleteStep == TypeOK /\ CompleteInv /\ [Next]_vars => CompleteInv'
<1> SUFFICES ASSUME TypeOK, CompleteInv, [Next]_vars PROVE CompleteInv'
    OBVIOUS
<1>0. mgr \in MgrType /\ mgr.num \in Nat /\ mgr.cur \in Nat /\ call.n \in Nat
      /\ page \in Nat /\ CountedPagesComplete
      BY MgrFields, CallFields DEF TypeOK, CompleteInv
<1>1. CASE DisplayPage \/ DisplayAhead
  <2>1. PICK p \in Nat : Render(p)
        BY <1>0, <1>1 DEF DisplayPage, DisplayAhead
  <2>2. mgr' = mgr /\ mode' = mode /\ st = "display"
        BY <1>1 DEF DisplayPage, DisplayAhead, input
  <2>3. st' = "draw"
        BY <2>1 DEF Render
  <2> QED BY <1>0, <2>1, <2>2, <2>3, RenderKeepsCounted DEF CompleteInv
<1>2. CASE AheadLoop
  <2>1. Render(NextPageNum) /\ NextPageNum \in Nat
        BY <1>0, <1>2 DEF AheadLoop, NextPageNum
  <2>2. mgr'.num = mgr.num /\ mode' = mode /\ st = "shown"
        BY <1>0, <1>2 DEF AheadLoop, input, MgrType
  <2>3. st' = "draw"
        BY <2>1 DEF Render
  <2> QED BY <1>0, <2>1, <2>2, <2>3, RenderKeepsCounted DEF CompleteInv
<1>3. CASE \/ AheadLast \/ AheadEnd \/ Displayed \/ ReturnPage \/ ReturnAll
           \/ ReturnSerialized
  <2>1. UNCHANGED <<mgr, pg, mode>> /\ st # "idle" /\ st' # "draw"
        BY <1>3 DEF AheadLast, AheadEnd, Displayed, ReturnPage, ReturnAll,
                    ReturnSerialized, input, files
  <2> QED BY <1>0, <2>1, SameCounted DEF CompleteInv
<1>4. CASE FillBuffer
  <2>1. UNCHANGED <<mgr, pg, mode, st, page, newPage, call>>
        BY <1>4 DEF FillBuffer, input, files, frame
  <2> QED BY <1>0, <2>1, SameCounted DEF CompleteInv
<1>5. ASSUME NEW g, DrawGlyph(g) PROVE CompleteInv'
  <2>1. UNCHANGED <<mgr, pg, mode, st, page, newPage, call>>
        BY <1>5 DEF DrawGlyph, input, frame
  <2> QED BY <1>0, <2>1, SameCounted DEF CompleteInv
<1>6. ASSUME NEW g, BreakPage(g) \/ EndDocument(g) PROVE CompleteInv'
  <2>1. st = "draw" /\ st' = "shown" /\ mode' = mode
        BY <1>6 DEF BreakPage, EndDocument, TakesGlyph, PageDone, input
  <2>2. CASE call.op = "serial"
    <3>1. UNCHANGED <<mgr, pg>>
          BY <1>6, <2>2 DEF BreakPage, EndDocument
    <3> QED BY <1>0, <2>1, <3>1, SameCounted DEF CompleteInv
  <2>3. CASE call.op # "serial"
    <3>1. [mgr EXCEPT !.max = page] \in MgrType /\ [mgr EXCEPT !.max = page].num = mgr.num
          BY <1>0 DEF MgrType
    <3>2. EndPage(mgr) \/ EndPage([mgr EXCEPT !.max = page])
          BY <1>6, <2>3 DEF BreakPage, EndDocument
    <3> HIDE DEF EndPage
    <3>3. CountedPagesComplete'
          BY <1>0, <2>1, <2>3, <3>1, <3>2, EndPageCompletes
    <3> QED BY <2>1, <3>3 DEF CompleteInv
  <2> QED BY <2>2, <2>3
<1>7. ASSUME NEW m \in Modes, Start(m) PROVE CompleteInv'
  <2>1. mgr'.num = 0 /\ st' = st /\ mode = "off"
        BY <1>7 DEF Start, FreshMgr
  <2> QED BY <2>1 DEF CompleteInv, CountedPagesComplete
<1>8. ASSUME NEW n \in 0 .. MaxPage,
             Stop \/ GetMaxPage \/ GetPage(n) PROVE CompleteInv'
  <2>1. UNCHANGED <<mgr, pg>> /\ st' # "draw" /\ (mode' = "off" => st' = "idle")
        BY <1>8 DEF Stop, GetMaxPage, GetPage, files, input
  <2> QED BY <1>0, <2>1, SameCounted DEF CompleteInv
<1>9. CASE FreePage
  <2>1. UNCHANGED <<mgr, pg, mode, st, page, newPage, call>>
        BY <1>9 DEF FreePage, input, files, frame
  <2> QED BY <1>0, <2>1, SameCounted DEF CompleteInv
<1>10. ASSUME NEW n \in 0 .. MaxPage, GetSerialized(n) PROVE CompleteInv'
  <2>1. /\ UNCHANGED <<mgr, pg, mode>> /\ mode = "serial"
        /\ newPage' = FALSE /\ call'.op = "serial"
        BY <1>10 DEF GetSerialized, RestorePage, files, input
  <2> QED BY <1>0, <2>1, SameCounted DEF CompleteInv
<1>11. CASE UNCHANGED vars
  <2>1. UNCHANGED <<mgr, pg, mode, st, page, newPage, call>>
        BY <1>11 DEF vars, input, files, frame
  <2> QED BY <1>0, <2>1, SameCounted DEF CompleteInv
<1>12. 0 \in 0 .. MaxPage
       BY EngineAssumption DEF EngineAssumption, NoMax
<1> QED BY <1>1, <1>2, <1>3, <1>4, <1>5, <1>6, <1>7, <1>8, <1>9, <1>10, <1>11, <1>12
        DEF Next, Engine, Client

\* RestorePage does not look at RecoverState's answer.  In one engine's life
\* it need not, whatever the client does: every page that was rendered to its
\* end has a complete .pg file.
THEOREM CountedPagesAreComplete == Spec => []CountedPagesComplete
<1>1. CompleteInv => CountedPagesComplete
      BY DEF CompleteInv
<1> QED BY <1>1, TypeInit, TypeStep, CompleteInit, CompleteStep, PTL DEF Spec

-----------------------------------------------------------------------------
(* GetPage's assert.  Inductively: a forward run stays short of the page    *)
(* asked for, so that it only gives up on pages beyond the last one.        *)

AssertInv ==
  /\ call.op = "get" => mode = "plain"
  /\ mode = "off" => st = "idle"
  /\ st = "idle" => call.op = "none"
  /\ call.op = "get" /\ call.fwd /\ st # "return" => call.i < call.n
  /\ st = "shown" /\ call.op = "get" => img = "buffer"
  /\ st = "return" /\ call.op = "get" => img = "buffer" \/ call.n > mgr.max

LEMMA AssertInit == Init => AssertInv
BY DEF Init, NoCall, AssertInv

LEMMA AssertStep ==
  ASSUME "fast" \notin Modes, TypeOK, AssertInv, [Next]_vars
  PROVE  AssertInv'
<1>0. /\ call \in CallType /\ call.n \in Nat /\ call.i \in Nat
      /\ mgr.num \in Nat /\ mgr.max \in Nat
      BY MgrFields, CallFields DEF TypeOK
<1> USE DEF AssertInv
<1>1. CASE DisplayPage
  <2>1. UNCHANGED <<mode, call>> /\ st = "display" /\ st' = "draw"
        BY <1>1 DEF DisplayPage, Render, input
  <2> QED BY <2>1
<1>2. CASE DisplayAhead
  <2>1. /\ mode' = mode /\ st = "display" /\ st' = "draw"
        /\ call'.op = call.op /\ call'.n = call.n /\ call'.i = mgr.num
        BY <1>0, <1>2 DEF DisplayAhead, Render, input, CallType
  <2>2. mgr.num < call.n
        BY <1>0, <1>2 DEF DisplayAhead
  <2> QED BY <2>1, <2>2
<1>3. CASE AheadLoop
  <2>1. /\ mode' = mode /\ st = "shown" /\ st' = "draw"
        /\ call'.op = call.op /\ call'.n = call.n /\ call'.i = call.i + 1
        BY <1>0, <1>3 DEF AheadLoop, Advance, Render, input, CallType
  <2>2. call.i + 1 < call.n
        BY <1>3 DEF AheadLoop
  <2> QED BY <2>1, <2>2
<1>4. CASE AheadLast
  <2>1. /\ mode' = mode /\ st = "shown" /\ st' = "display"
        /\ call'.op = call.op /\ call'.fwd = FALSE
        BY <1>0, <1>4 DEF AheadLast, input, CallType
  <2> QED BY <2>1
<1>5. CASE AheadEnd
  <2>1. /\ UNCHANGED <<mode, call, mgr>> /\ st = "shown" /\ st' = "return"
        /\ call.fwd /\ call.i >= mgr.max
        BY <1>5 DEF AheadEnd, AfterLast, input
  <2> QED BY <1>0, <2>1
<1>6. CASE Displayed
  <2>1. UNCHANGED <<mode, call, mgr, img>> /\ st = "shown" /\ st' = "return"
        BY <1>6 DEF Displayed, input, frame
  <2> QED BY <2>1
<1>7. CASE ReturnPage \/ ReturnSerialized
  <2>1. call' = NoCall /\ st' = "idle"
        BY <1>7 DEF ReturnPage, ReturnSerialized
  <2> QED BY <2>1 DEF NoCall
<1>8. CASE ReturnAll
  <2>1. /\ mode' = mode /\ mode # "off" /\ call.op = "all"
        /\ \/ call'.op = "all" /\ st' = "display"
           \/ call' = NoCall /\ st' = "idle"
        BY <1>0, <1>8 DEF ReturnAll, input, CallType
  <2> QED BY <2>1 DEF NoCall
<1>9. CASE FillBuffer
  <2>1. UNCHANGED <<mode, call, st>> /\ st = "draw"
        BY <1>9 DEF FillBuffer, input, frame
  <2> QED BY <2>1
<1>10. ASSUME NEW g, DrawGlyph(g) PROVE AssertInv'
  <2>1. UNCHANGED <<mode, call, st>> /\ st = "draw"
        BY <1>10 DEF DrawGlyph, TakesGlyph, input, frame
  <2> QED BY <2>1
<1>11. ASSUME NEW g, BreakPage(g) \/ EndDocument(g) PROVE AssertInv'
  <2>1. /\ UNCHANGED <<mode, call>> /\ st = "draw" /\ st' = "shown"
        /\ mode = "plain" => img' = "buffer"
        BY <1>11 DEF BreakPage, EndDocument, TakesGlyph, PageDone, input
  <2> QED BY <2>1
<1>12. ASSUME NEW m \in Modes, Start(m) PROVE AssertInv'
  <2>1. mode = "off" /\ mode' = m /\ m # "off" /\ UNCHANGED <<call, st>>
        BY <1>12, EngineAssumption DEF EngineAssumption, Start, frame
  <2> QED BY <2>1
<1>13. CASE Stop
  <2>1. call' = NoCall /\ st' = "idle"
        BY <1>13 DEF Stop
  <2> QED BY <2>1 DEF NoCall
<1>14. ASSUME NEW n \in 0 .. MaxPage, GetPage(n) PROVE AssertInv'
  <2>1. /\ mode' = mode /\ mode = "plain" /\ st' = "display"
        /\ call'.op = "get" /\ call'.fwd = FALSE
        BY <1>14 DEF GetPage, input, TypeOK
  <2> QED BY <2>1
<1>15. CASE GetMaxPage
  <2>1. mode' = mode /\ mode # "off" /\ st' = "display" /\ call'.op = "all"
        BY <1>15 DEF GetMaxPage, input
  <2> QED BY <2>1
<1>16. CASE FreePage
  <2>1. UNCHANGED <<mode, call, st>> /\ st = "idle"
        BY <1>16 DEF FreePage, input, frame
  <2> QED BY <2>1
<1>17. ASSUME NEW n \in 0 .. MaxPage, GetSerialized(n) PROVE AssertInv'
  <2>1. mode' = mode /\ mode = "serial" /\ st' = "draw" /\ call'.op = "serial"
        BY <1>17 DEF GetSerialized, input
  <2> QED BY <2>1
<1>18. CASE UNCHANGED vars
  <2>1. UNCHANGED <<mode, call, st, img, mgr>>
        BY <1>18 DEF vars, input, frame
  <2> QED BY <2>1
<1> QED BY <1>1, <1>2, <1>3, <1>4, <1>5, <1>6, <1>7, <1>8, <1>9, <1>10, <1>11, <1>12,
           <1>13, <1>14, <1>15, <1>16, <1>17, <1>18
        DEF Next, Engine, Client

\* Without fast page sum, GetPage's assert(ret == true) never stops the
\* process, whatever pages the client asks for and in what order: if Display
\* comes back without a buffer, the page is beyond the last one by then.
THEOREM GetPageAssertHolds ==
  ASSUME "fast" \notin Modes
  PROVE  Spec => []AssertHolds
<1>1. TypeOK /\ AssertInv => AssertHolds
  <2> SUFFICES ASSUME TypeOK, AssertInv PROVE AssertHolds
      OBVIOUS
  <2>1. call.n \in Nat /\ mgr.max \in Nat
        BY MgrFields, CallFields DEF TypeOK
  <2> QED BY <2>1 DEF AssertInv, AssertHolds
<1>2. TypeOK /\ AssertInv /\ [Next]_vars => AssertInv'
      BY AssertStep
<1> QED BY <1>1, <1>2, TypeInit, TypeStep, AssertInit, PTL DEF Spec

-----------------------------------------------------------------------------
(* Clients that only turn pages: they ask for the next page or, if LookBack *)
(* allows it, for earlier ones.  Inductively: the page being drawn is the   *)
(* one asked for, and it is not beyond the last one; if it is always the    *)
(* next one, nothing is drawn once the last page is known.                  *)

TurnInv ==
  /\ orphans = 0
  /\ call.op # "all" /\ ~call.fwd
  /\ mode = "off" => st = "idle"
  /\ st = "idle" <=> call.op = "none"
  /\ st = "display" => call.op = "get"
  /\ call.op = "get" => call.n <= mgr.max
  /\ call.op = "get" /\ st = "display" => call.n <= mgr.num
  /\ call.op = "get" /\ st = "draw" => page = call.n

ForwardInv ==
  /\ mgr.max # NoMax => mgr.max < mgr.num
  /\ call.op = "get" /\ st \in {"display", "draw"} => call.n = mgr.num

LEMMA EndPageMgr ==
  ASSUME NEW m \in MgrType, EndPage(m)
  PROVE  /\ mgr'.max = m.max
         /\ mgr'.num = IF page = mgr.num THEN m.num + 1 ELSE m.num
BY DEF EndPage, MgrType

LEMMA TurnInit == Init => TurnInv /\ ForwardInv
BY DEF Init, NoCall, FreshMgr, TurnInv, ForwardInv

LEMMA TurnStep ==
  ASSUME JumpAhead = FALSE, CountAll = FALSE, TypeOK, TurnInv, [Next]_vars
  PROVE  /\ TurnInv'
         /\ LookBack = FALSE /\ ForwardInv =>
              /\ ForwardInv'
              /\ mode # "off" /\ mode' # "off" /\ mgr.max # NoMax => mgr'.max = mgr.max
<1> DEFINE Kept == /\ ForwardInv'
                   /\ mode # "off" /\ mode' # "off" /\ mgr.max # NoMax => mgr'.max = mgr.max
           Goal == TurnInv' /\ (LookBack = FALSE /\ ForwardInv => Kept)
<1> SUFFICES Goal
    OBVIOUS
<1>0. /\ mgr \in MgrType /\ call \in CallType /\ call.n \in Nat /\ page \in Nat
      /\ mgr.num \in Nat /\ mgr.max \in Nat
      BY MgrFields, CallFields DEF TypeOK
<1> USE DEF TurnInv, ForwardInv
<1>1. CASE DisplayPage
  <2>1. /\ UNCHANGED <<mode, call, mgr, orphans>> /\ st = "display" /\ st' = "draw"
        /\ page' = call.n
        BY <1>1 DEF DisplayPage, Render, input, buffers
  <2> QED BY <2>1
<1>2. CASE DisplayAhead
      BY <1>0, <1>2 DEF DisplayAhead
<1>3. CASE AheadLoop \/ AheadLast \/ AheadEnd \/ GetMaxPage \/ ReturnAll
      BY <1>3 DEF AheadLoop, AheadLast, AheadEnd, GetMaxPage, ReturnAll
<1>4. CASE Displayed
  <2>1. UNCHANGED <<mode, call, mgr, orphans>> /\ st = "shown" /\ st' = "return"
        BY <1>4 DEF Displayed, input, frame, buffers
  <2> QED BY <2>1
<1>5. CASE ReturnPage
  <2>1. ~IsBeyond(call.n)
        BY <1>0, <1>5 DEF ReturnPage, IsBeyond
  <2>2. UNCHANGED <<mode, mgr, orphans>> /\ call' = NoCall /\ st' = "idle"
        BY <1>5, <2>1 DEF ReturnPage, input
  <2> QED BY <2>2 DEF NoCall
<1>6. CASE ReturnSerialized
  <2>1. UNCHANGED <<mode, mgr, orphans>> /\ call' = NoCall /\ st' = "idle"
        BY <1>6 DEF ReturnSerialized, input
  <2> QED BY <2>1 DEF NoCall
<1>7. CASE FillBuffer
  <2>1. UNCHANGED <<mode, call, mgr, orphans, st, page>>
        BY <1>7 DEF FillBuffer, input, frame, buffers
  <2> QED BY <2>1
<1>8. ASSUME NEW g, DrawGlyph(g) PROVE Goal
  <2>1. UNCHANGED <<mode, call, mgr, orphans, st, page>>
        BY <1>8 DEF DrawGlyph, input, frame, buffers
  <2> QED BY <2>1
<1>9. ASSUME NEW g, BreakPage(g) PROVE Goal
  <2>1. UNCHANGED <<mode, call, orphans, page>> /\ st = "draw" /\ st' = "shown"
        BY <1>9 DEF BreakPage, TakesGlyph, PageDone, input, buffers
  <2>2. CASE call.op = "serial"
    <3>1. mgr' = mgr
          BY <1>9, <2>2 DEF BreakPage
    <3> QED BY <2>1, <2>2, <3>1
  <2>3. CASE call.op # "serial"
    <3>1. mgr'.max = mgr.max /\ mgr'.num >= mgr.num
          BY <1>0, <1>9, <2>3, EndPageMgr DEF BreakPage
    <3>2. mgr'.num \in Nat
          BY <1>0, <1>9, <2>3, EndPageMgr DEF BreakPage
    <3> QED BY <1>0, <2>1, <3>1, <3>2
  <2> QED BY <2>2, <2>3
<1>10. ASSUME NEW g, EndDocument(g) PROVE Goal
  <2>1. UNCHANGED <<mode, call, orphans, page>> /\ st = "draw" /\ st' = "shown"
        BY <1>10 DEF EndDocument, TakesGlyph, PageDone, input, buffers
  <2>2. CASE call.op = "serial"
    <3>1. mgr' = mgr
          BY <1>10, <2>2 DEF EndDocument
    <3> QED BY <2>1, <2>2, <3>1
  <2>3. CASE call.op # "serial"
    <3> DEFINE m == [mgr EXCEPT !.max = page]
    <3>1. call.op = "get" /\ page = call.n /\ page <= mgr.max
          BY <1>0, <2>1, <2>3, CallFields
    <3>2. m \in MgrType /\ m.max = page /\ m.num = mgr.num /\ EndPage(m)
          BY <1>0, <1>10, <2>3 DEF EndDocument, MgrType
    <3> HIDE DEF m
    <3>3. /\ mgr'.max = page
          /\ mgr'.num = IF page = mgr.num THEN mgr.num + 1 ELSE mgr.num
          BY <3>2, EndPageMgr
    <3>4. TurnInv'
          BY <1>0, <2>1, <3>1, <3>3
    <3>5. ASSUME ForwardInv PROVE Kept
      <4>1. page = mgr.num /\ mgr.max = NoMax
            BY <1>0, <2>1, <3>1, <3>5
      <4> QED BY <1>0, <2>1, <3>3, <4>1
    <3> QED BY <3>4, <3>5
  <2> QED BY <2>2, <2>3
<1>11. ASSUME NEW m \in Modes, Start(m) PROVE Goal
  <2>1. /\ mode = "off" /\ mode' = m /\ m # "off" /\ UNCHANGED <<call, st, orphans>>
        /\ mgr'.max = NoMax
        BY <1>11, EngineAssumption DEF EngineAssumption, Start, FreshMgr, frame, buffers
  <2> QED BY <2>1
<1>12. CASE Stop
  <2>1. call' = NoCall /\ st' = "idle" /\ mode' = "off" /\ mgr' = mgr /\ orphans' = 0
        BY <1>12 DEF Stop
  <2> QED BY <2>1 DEF NoCall
<1>13. ASSUME NEW n \in 0 .. MaxPage, GetPage(n) PROVE Goal
  <2>1. /\ UNCHANGED <<mode, mgr, orphans>> /\ mode # "off" /\ st' = "display"
        /\ call'.op = "get" /\ call'.fwd = FALSE /\ call'.n = n
        BY <1>13 DEF GetPage, input, buffers
  <2>2. n \in Nat /\ n <= mgr.max /\ n <= mgr.num /\ (LookBack = FALSE => n = mgr.num)
        BY <1>0, <1>13, EngineAssumption DEF EngineAssumption, NoMax, GetPage, IsBeyond, Allowed
  <2> QED BY <2>1, <2>2
<1>14. CASE FreePage
  <2>1. UNCHANGED <<mode, call, mgr, orphans, st, page>>
        BY <1>14 DEF FreePage, input, frame
  <2> QED BY <2>1
<1>15. ASSUME NEW n \in 0 .. MaxPage, GetSerialized(n) PROVE Goal
  <2>1. /\ UNCHANGED <<mode, mgr, orphans>> /\ mode = "serial" /\ st' = "draw"
        /\ call'.op = "serial" /\ call'.fwd = FALSE
        BY <1>15 DEF GetSerialized, input, buffers
  <2> QED BY <2>1
<1>16. CASE UNCHANGED vars
  <2>1. UNCHANGED <<mode, call, mgr, orphans, st, page>>
        BY <1>16 DEF vars, input, frame, buffers
  <2> QED BY <2>1
<1> QED BY <1>1, <1>2, <1>3, <1>4, <1>5, <1>6, <1>7, <1>8, <1>9, <1>10, <1>11, <1>12,
           <1>13, <1>14, <1>15, <1>16
        DEF Next, Engine, Client

\* A client that never skips a page, and never asks for their number, gets
\* every buffer the engine allocates: it can free them all.
THEOREM TurningPagesLosesNoBuffer ==
  ASSUME JumpAhead = FALSE, CountAll = FALSE
  PROVE  Spec => []NoOrphans
<1>1. TurnInv => NoOrphans
      BY DEF TurnInv, NoOrphans
<1>2. TypeOK /\ TurnInv /\ [Next]_vars => TurnInv'
      BY TurnStep
<1>3. Init => TurnInv
      BY TurnInit
<1> QED BY <1>1, <1>2, <1>3, TypeInit, TypeStep, PTL DEF Spec

\* For a client that only turns to the next page the document ends once: no
\* step of the engine moves the last page after it became known.
THEOREM LastPageIsFinal ==
  ASSUME LookBack = FALSE, JumpAhead = FALSE, CountAll = FALSE
  PROVE  Spec => LastPageStays
<1> DEFINE Step == mode # "off" /\ mode' # "off" /\ mgr.max # NoMax => mgr'.max = mgr.max
<1>1. TypeOK /\ TurnInv /\ ForwardInv /\ [Next]_vars
        => TurnInv' /\ ForwardInv' /\ [Step]_vars
      BY TurnStep
<1> QED BY <1>1, TurnInit, TypeInit, TypeStep, PTL DEF Spec, LastPageStays

-----------------------------------------------------------------------------
(***************************************************************************)
(* The book.  PageEngine implements Book for readers who only turn to the  *)
(* next page, for every document and page geometry, whatever engines stop  *)
(* or die.                                                                 *)
(*                                                                         *)
(* What has to be shown about the parser is where its batches end: between *)
(* two glyphs it hands out, in one batch or in two, nothing that is to be  *)
(* shown lies in the document.                                             *)
(***************************************************************************)

-----------------------------------------------------------------------------
(* The parser between two batches.                                          *)

\* The glyphs of a document, and that there is none between a and b.
Stream(d) == ShownTokens(d) \cup {EofGlyph(d)}
Gap(d, a, b) == \A k \in ShownTokens(d) : ~(a < k /\ k < b)

\* Text is before off and no tag after that text; or there is a tag on either
\* side of off, so that blanks after off are not shown.
InRun(d, off) == \E j \in 1 .. off : d[j] = "c" /\ \A i \in j .. off : d[i] \notin Tag
AtTag(d, off) ==
  off = 0 \/ off = Len(d) \/ d[off] \in Tag \/ d[off + 1] \in Tag

Chain(d, s) == \A i \in 1 .. Len(s) - 1 : s[i] < s[i + 1] /\ Gap(d, s[i], s[i + 1])

\* The state between two calls of fillGlyphStream.
Parsed(d, off, buf, resume) ==
  /\ off \in 0 .. Len(d)
  /\ IF resume THEN InRun(d, off) ELSE AtTag(d, off)
  /\ \A i \in 1 .. Len(buf) : buf[i] \in Stream(d) /\ (buf[i] <= off \/ off = Len(d))
  /\ Chain(d, buf)
  /\ buf # <<>> => Gap(d, buf[Len(buf)], off + 1)

\* The first place in the document that was not handed out yet.
Front(off, buf) == IF buf = <<>> THEN off + 1 ELSE buf[1]

ReadInv ==
  /\ Parsed(doc, parser.off, parser.buf, parser.resume)
  /\ seen = {k \in ShownTokens(doc) : k < Front(parser.off, parser.buf)}

\* Inductively: engines that read forward have shown what lies before the
\* parser's front; others draw nothing for the first time.
BookInv ==
  /\ mode \in {"plain", "fast"} => ReadInv
  /\ mode \in {"off", "serial"} => ~newPage
  /\ call.op = "get" => mode \in {"plain", "fast"} /\ call.n <= MaxPage
  /\ call.op = "serial" => mode = "serial"
  /\ call.op = "get" /\ st \in {"draw", "shown"} => newPage
  /\ TextKept

-----------------------------------------------------------------------------
(* One batch.                                                               *)

LEMMA DocFacts ==
  ASSUME NEW d \in Seq(Token)
  PROVE  /\ Len(d) \in Nat /\ EofGlyph(d) = Len(d) + 1
         /\ \A i \in 1 .. Len(d) : d[i] \in Token
         /\ \A k \in ShownTokens(d) : k \in 1 .. Len(d)
         /\ \A k \in Stream(d) : k \in 1 .. Len(d) + 1
BY LenProperties, ElementOfSeq DEF EofGlyph, ShownTokens, Stream

LEMMA WordsParsed ==
  ASSUME NEW d \in Seq(Token), NEW o \in 0 .. Len(d), o < Len(d), NEW a, WordMax \in Nat,
         InRun(d, o) \/ d[o + 1] = "c"
  PROVE  LET b == Words(d, o, a)
         IN  /\ Parsed(d, b.off, b.glyphs, b.resume)
             /\ Front(b.off, b.glyphs) = o + 1
<1> DEFINE b == Words(d, o, a)
           e == WordsEnd(d, o)
           s == b.glyphs
           n == Len(s)
<1>1. /\ e \in o + 1 .. Len(d) + 1 /\ \A i \in o + 1 .. e - 1 : d[i] \notin Tag
      /\ e # Len(d) + 1 => d[e] \in Tag
      BY WordsEndIs
<1>2. /\ s \in Seq(Nat) /\ \A i \in 1 .. n : s[i] = o + i
      /\ \/ b.resume = TRUE /\ b.off = o + n /\ o + n <= e - 1 /\ n > 0
         \/ b.resume = FALSE /\ b.off = e - 1 /\ e # Len(d) + 1 /\ o + n = e - 1
         \/ b.resume = FALSE /\ b.off = e - 1 /\ e = Len(d) + 1 /\ o + n = e
      BY WordsAre
<1>3. /\ Len(d) \in Nat /\ EofGlyph(d) = Len(d) + 1 /\ n \in Nat /\ o \in Nat
      /\ \A i \in 1 .. Len(d) : d[i] \in Token
      /\ \A k \in ShownTokens(d) : k \in 1 .. Len(d)
      /\ \A k \in Stream(d) : k \in 1 .. Len(d) + 1
      BY <1>2, DocFacts, LenProperties
<1> HIDE DEF b, e
<1>4. b.off \in 0 .. Len(d)
      BY <1>1, <1>2, <1>3, SMTT(30)
\* Each glyph of the run follows a visible character.
<1>5. ASSUME NEW m \in o + 1 .. e - 1 PROVE InRun(d, m)
  <2>1. \A i \in o + 1 .. m : d[i] \notin Tag
        BY <1>1, <1>3
  <2>2. CASE InRun(d, o)
    <3>1. PICK j \in 1 .. o : d[j] = "c" /\ \A i \in j .. o : d[i] \notin Tag
          BY <2>2 DEF InRun
    <3>2. \A i \in j .. m : d[i] \notin Tag
          BY <1>3, <2>1, <3>1
    <3>3. j \in 1 .. m
          BY <1>1, <1>3
    <3> QED BY <3>1, <3>2, <3>3 DEF InRun
  <2>3. CASE d[o + 1] = "c"
    <3>1. o + 1 \in 1 .. m
          BY <1>1, <1>3
    <3> QED BY <2>1, <2>3, <3>1 DEF InRun
  <2> QED BY <2>2, <2>3
<1>6. ASSUME NEW k \in o + 1 .. e - 1 PROVE k \in ShownTokens(d)
  <2>1. k \in 1 .. Len(d) /\ d[k] \in {"c"} \cup BlankChars
        BY <1>1, <1>3 DEF Token, Tag, BlankChars
  <2>2. PICK j \in 1 .. k : d[j] = "c" /\ \A i \in j .. k : d[i] \notin Tag
        BY <1>5 DEF InRun
  <2>3. d[k] \in BlankChars => j \in 1 .. k - 1
        BY <2>1, <2>2 DEF BlankChars
  <2> QED BY <2>1, <2>2, <2>3 DEF ShownTokens
<1>7. IF b.resume THEN InRun(d, b.off) ELSE AtTag(d, b.off)
  <2>1. CASE b.resume = TRUE
    <3>1. b.off \in o + 1 .. e - 1
          BY <1>1, <1>2, <1>3, <2>1
    <3> QED BY <1>5, <2>1, <3>1
  <2>2. CASE b.resume = FALSE
    <3>1. b.off = e - 1
          BY <1>2, <2>2
    <3>2. b.off = Len(d) \/ d[b.off + 1] \in Tag
          BY <1>1, <1>3, <3>1
    <3> QED BY <2>2, <3>2 DEF AtTag
  <2> QED BY <1>2, <2>1, <2>2
<1>8. ASSUME NEW i \in 1 .. n PROVE s[i] \in Stream(d) /\ (s[i] <= b.off \/ b.off = Len(d))
  <2>1. s[i] = o + i
        BY <1>2
  <2>2. CASE o + i <= e - 1
    <3>1. o + i \in o + 1 .. e - 1
          BY <1>1, <1>3, <2>2
    <3>2. o + i <= b.off
          BY <1>1, <1>2, <1>3, <2>2
    <3> QED BY <1>6, <2>1, <3>1, <3>2 DEF Stream
  <2>3. CASE ~(o + i <= e - 1)
    <3>1. o + i = Len(d) + 1 /\ b.off = Len(d)
          BY <1>1, <1>2, <1>3, <2>3, SMTT(30)
    <3> QED BY <1>3, <2>1, <3>1 DEF Stream
  <2> QED BY <2>2, <2>3
<1>9. Chain(d, s)
  <2>1. ASSUME NEW i \in 1 .. n - 1 PROVE s[i] < s[i + 1] /\ Gap(d, s[i], s[i + 1])
    <3>1. s[i] = o + i /\ s[i + 1] = o + i + 1
          BY <1>2, <1>3
    <3> QED BY <1>3, <3>1 DEF Gap
  <2> QED BY <2>1 DEF Chain
<1>10. s # <<>> => Gap(d, s[n], b.off + 1) /\ s[1] = o + 1
  <2> SUFFICES ASSUME s # <<>> PROVE Gap(d, s[n], b.off + 1) /\ s[1] = o + 1
      OBVIOUS
  <2>1. n \in 1 .. n /\ 1 \in 1 .. n
        BY <1>2, <1>3, EmptySeq
  <2>2. s[n] = o + n /\ s[1] = o + 1
        BY <1>2, <2>1
  <2>3. ~(o + n < b.off)
        BY <1>1, <1>2, <1>3
  <2> QED BY <1>3, <1>4, <2>2, <2>3 DEF Gap
<1>11. s = <<>> => b.off = o
  <2> SUFFICES ASSUME s = <<>> PROVE b.off = o
      OBVIOUS
  <2>1. n = 0
        BY EmptySeq
  <2> QED BY <1>1, <1>2, <1>3, <2>1
<1> QED BY <1>4, <1>7, <1>8, <1>9, <1>10, <1>11 DEF Parsed, Front, b

\* Blanks that are skipped at a tag are not shown.
LEMMA SkippedIsBlank ==
  ASSUME NEW d \in Seq(Token), NEW o \in 0 .. Len(d), o < Len(d), AtTag(d, o)
  PROVE  Gap(d, o, FirstShown(d, o))
<1> DEFINE f == FirstShown(d, o)
<1>1. f \in o + 1 .. Len(d) + 1 /\ \A i \in o + 1 .. f - 1 : d[i] \notin {"c", "n"}
      BY FirstShownIs
<1>2. Len(d) \in Nat /\ \A k \in ShownTokens(d) : k \in 1 .. Len(d)
      BY DocFacts
<1> HIDE DEF f
<1>3. SUFFICES ASSUME NEW k \in ShownTokens(d), o < k, k < f PROVE FALSE
      BY DEF Gap, f
<1>4. k \in o + 1 .. f - 1 /\ k \in Nat
      BY <1>1, <1>2, <1>3
<1>5. PICK j \in 1 .. k - 1 : d[j] = "c" /\ \A i \in j .. k : d[i] \notin Tag
      BY <1>1, <1>4 DEF ShownTokens
<1>6. j \notin o + 1 .. f - 1
      BY <1>1, <1>5
<1>7. j <= o /\ o \in j .. k /\ o + 1 \in j .. k
      BY <1>1, <1>2, <1>4, <1>5, <1>6
<1> QED BY <1>2, <1>5, <1>7 DEF AtTag

\* A call of fillGlyphStream takes the parser from one such state to another,
\* and what it skips makes no glyph.
LEMMA FillParsed ==
  ASSUME NEW d \in Seq(Token), NEW o, NEW r \in BOOLEAN, WordMax \in Nat,
         Parsed(d, o, <<>>, r)
  PROVE  LET b == Fill(d, o, r)
         IN  /\ Parsed(d, b.off, b.glyphs, b.resume)
             /\ Front(b.off, b.glyphs) > o
             /\ Gap(d, o, Front(b.off, b.glyphs))
<1> DEFINE f == FirstShown(d, o)
<1>1. o \in 0 .. Len(d) /\ (IF r THEN InRun(d, o) ELSE AtTag(d, o))
      BY DEF Parsed
<1>2. /\ Len(d) \in Nat /\ EofGlyph(d) = Len(d) + 1
      /\ \A i \in 1 .. Len(d) : d[i] \in Token
      /\ \A k \in ShownTokens(d) : k \in 1 .. Len(d)
      BY DocFacts
\* A batch of one glyph.
<1>3. ASSUME NEW g \in Nat, NEW m \in 0 .. Len(d), NEW q \in BOOLEAN,
             g \in Stream(d), g = m \/ (g = m + 1 /\ m = Len(d)),
             IF q THEN InRun(d, m) ELSE AtTag(d, m)
      PROVE  Parsed(d, m, <<g>>, q) /\ Front(m, <<g>>) = g
  <2>1. Len(<<g>>) = 1 /\ <<g>>[1] = g /\ <<g>> # <<>>
        OBVIOUS
  <2>2. Chain(d, <<g>>)
        BY <2>1 DEF Chain
  <2>3. Gap(d, g, m + 1)
        BY <1>2, <1>3 DEF Gap
  <2>4. g <= m \/ m = Len(d)
        BY <1>3
  <2> QED BY <1>3, <2>1, <2>2, <2>3, <2>4 DEF Parsed, Front
<1>4. CASE o = Len(d)
  <2>1. Fill(d, o, r) = Batch(<<o + 1>>, o, r, FALSE)
        BY <1>2, <1>4 DEF Fill
  <2>2. o + 1 \in Stream(d) /\ o + 1 \in Nat
        BY <1>1, <1>2, <1>4 DEF Stream
  <2>3. Parsed(d, o, <<o + 1>>, r) /\ Front(o, <<o + 1>>) = o + 1
        BY <1>1, <1>3, <1>4, <2>2
  <2>4. Gap(d, o, o + 1)
        BY <1>1, <1>2 DEF Gap
  <2> QED BY <1>1, <2>1, <2>3, <2>4 DEF Batch
<1>5. CASE o # Len(d) /\ r
  <2>1. Fill(d, o, r) = Words(d, o, FALSE)
        BY <1>5 DEF Fill
  <2>2. Gap(d, o, o + 1) /\ o + 1 > o /\ o < Len(d)
        BY <1>1, <1>2, <1>5 DEF Gap
  <2> QED BY <1>1, <1>5, <2>1, <2>2, WordsParsed
<1>6. CASE o # Len(d) /\ ~r
  <2>1. /\ f \in o + 1 .. Len(d) + 1 /\ (f # Len(d) + 1 => d[f] \in {"c", "n"})
        /\ Gap(d, o, f) /\ f > o /\ f \in Nat
        BY <1>1, <1>2, <1>6, FirstShownIs, SkippedIsBlank
  <2> HIDE DEF f
  <2>2. CASE f = Len(d) + 1
    <3>1. Fill(d, o, r) = Batch(<<f>>, Len(d), FALSE, FALSE)
          BY <1>2, <1>6, <2>2 DEF Fill, f
    <3>2. f \in Stream(d) /\ Len(d) \in 0 .. Len(d) /\ AtTag(d, Len(d))
          BY <1>2, <2>2 DEF Stream, AtTag
    <3>3. Parsed(d, Len(d), <<f>>, FALSE) /\ Front(Len(d), <<f>>) = f
          BY <1>3, <2>1, <2>2, <3>2
    <3>4. Fill(d, o, r).off = Len(d) /\ Fill(d, o, r).glyphs = <<f>> /\ Fill(d, o, r).resume = FALSE
          BY <3>1 DEF Batch
    <3> QED BY <2>1, <3>3, <3>4
  <2>3. CASE f # Len(d) + 1 /\ d[f] = "n"
    <3>1. Fill(d, o, r) = Batch(<<f>>, f, FALSE, FALSE)
          BY <1>2, <1>6, <2>3 DEF Fill, f
    <3>2. f \in 0 .. Len(d) /\ f \in 1 .. Len(d)
          BY <1>1, <1>2, <2>1, <2>3
    <3>3. f \in Stream(d) /\ AtTag(d, f)
          BY <2>3, <3>2 DEF Stream, ShownTokens, AtTag, Tag
    <3>4. Parsed(d, f, <<f>>, FALSE) /\ Front(f, <<f>>) = f
          BY <1>3, <2>1, <3>2, <3>3
    <3>5. Fill(d, o, r).off = f /\ Fill(d, o, r).glyphs = <<f>> /\ Fill(d, o, r).resume = FALSE
          BY <3>1 DEF Batch
    <3> QED BY <2>1, <3>4, <3>5
  <2>4. CASE f # Len(d) + 1 /\ d[f] # "n"
    <3>1. Fill(d, o, r) = Words(d, f - 1, TRUE)
          BY <1>2, <1>6, <2>4 DEF Fill, f
    <3> DEFINE m == f - 1
    <3>2. m \in 0 .. Len(d) /\ m < Len(d) /\ m + 1 = f
          BY <1>1, <1>2, <2>1, <2>4
    <3>3. d[m + 1] = "c"
          BY <2>1, <2>4, <3>2, Zenon
    <3> HIDE DEF m
    <3>4. /\ Parsed(d, Words(d, m, TRUE).off, Words(d, m, TRUE).glyphs, Words(d, m, TRUE).resume)
          /\ Front(Words(d, m, TRUE).off, Words(d, m, TRUE).glyphs) = f
          BY <3>2, <3>3, WordsParsed
    <3> QED BY <2>1, <3>1, <3>4 DEF m
  <2> QED BY <2>2, <2>3, <2>4
<1> QED BY <1>4, <1>5, <1>6

\* Taking the first glyph moves the front past it and nothing else.
LEMMA TakeParsed ==
  ASSUME NEW d \in Seq(Token), NEW o, NEW buf \in Seq(Nat), NEW r,
         Parsed(d, o, buf, r), buf # <<>>
  PROVE  /\ Parsed(d, o, Tail(buf), r)
         /\ Head(buf) # EofGlyph(d) =>
              /\ Head(buf) \in ShownTokens(d) /\ Head(buf) < Front(o, Tail(buf))
              /\ Gap(d, Head(buf), Front(o, Tail(buf)))
         /\ Head(buf) = EofGlyph(d) => Tail(buf) = <<>> /\ o = Len(d)
<1> DEFINE t == Tail(buf)
           n == Len(buf)
<1>1. /\ t \in Seq(Nat) /\ n \in Nat \ {0} /\ Len(t) = n - 1 /\ Head(buf) = buf[1]
      /\ \A i \in 1 .. Len(t) : t[i] = buf[i + 1]
      BY HeadTailProperties, LenProperties, EmptySeq
<1>2. /\ Len(d) \in Nat /\ EofGlyph(d) = Len(d) + 1
      /\ \A k \in ShownTokens(d) : k \in 1 .. Len(d)
      /\ \A k \in Stream(d) : k \in 1 .. Len(d) + 1
      BY DocFacts
<1>3. /\ o \in 0 .. Len(d) /\ Chain(d, buf) /\ Gap(d, buf[n], o + 1)
      /\ \A i \in 1 .. n : buf[i] \in Stream(d) /\ (buf[i] <= o \/ o = Len(d))
      /\ IF r THEN InRun(d, o) ELSE AtTag(d, o)
      BY DEF Parsed
<1> HIDE DEF t, n
<1>4. Parsed(d, o, t, r)
  <2>1. \A i \in 1 .. Len(t) : t[i] \in Stream(d) /\ (t[i] <= o \/ o = Len(d))
    <3>1. \A i \in 1 .. Len(t) : i + 1 \in 1 .. n
          BY <1>1
    <3> QED BY <1>1, <1>3, <3>1
  <2>2. Chain(d, t)
    <3>1. ASSUME NEW i \in 1 .. Len(t) - 1
          PROVE  t[i] < t[i + 1] /\ Gap(d, t[i], t[i + 1])
      <4>1. t[i] = buf[i + 1] /\ t[i + 1] = buf[(i + 1) + 1] /\ i + 1 \in 1 .. n - 1
            BY <1>1
      <4> QED BY <1>3, <4>1 DEF Chain, n
    <3> QED BY <3>1 DEF Chain
  <2>3. t # <<>> => Gap(d, t[Len(t)], o + 1)
    <3>1. t # <<>> => Len(t) \in 1 .. Len(t) /\ Len(t) + 1 = n
          BY <1>1, EmptySeq
    <3> QED BY <1>1, <1>3, <3>1
  <2> QED BY <1>3, <2>1, <2>2, <2>3 DEF Parsed
<1>5. CASE t = <<>>
  <2>1. n = 1
        BY <1>1, <1>5, EmptySeq
  <2>2. Front(o, t) = o + 1 /\ Gap(d, buf[1], o + 1) /\ 1 \in 1 .. n
        BY <1>3, <1>5, <2>1 DEF Front
  <2>3. buf[1] = EofGlyph(d) => o = Len(d)
        BY <1>2, <1>3, <2>2
  <2>4. buf[1] # EofGlyph(d) => buf[1] \in ShownTokens(d)
        BY <1>3, <2>2 DEF Stream
  <2>5. buf[1] # EofGlyph(d) => buf[1] < o + 1
        BY <1>2, <1>3, <2>2, <2>4
  <2> QED BY <1>1, <1>4, <1>5, <2>2, <2>3, <2>4, <2>5 DEF t
<1>6. CASE t # <<>>
  <2>1. 1 \in 1 .. Len(t) /\ 1 \in 1 .. n - 1 /\ 1 \in 1 .. n /\ 2 \in 1 .. n
        BY <1>1, <1>6, EmptySeq
  <2>2. buf[1] < buf[2] /\ Gap(d, buf[1], buf[2])
        BY <1>3, <2>1 DEF Chain, n
  <2>3. Front(o, t) = buf[2]
        BY <1>1, <1>6, <2>1 DEF Front
  <2>4. buf[1] # EofGlyph(d)
        BY <1>2, <1>3, <2>1, <2>2
  <2>5. buf[1] \in ShownTokens(d)
        BY <1>3, <2>1, <2>4 DEF Stream
  <2> QED BY <1>1, <1>4, <2>2, <2>3, <2>4, <2>5 DEF t
<1> QED BY <1>5, <1>6

-----------------------------------------------------------------------------
(* The engine's steps.                                                      *)

LEMMA BookInit == Init => BookInv /\ Reading!Init
<1> SUFFICES ASSUME Init PROVE BookInv /\ Reading!Init
    OBVIOUS
<1>1. /\ mode = "off" /\ doc \in Docs /\ newPage = FALSE /\ seen = {} /\ st = "idle"
      /\ call.op = "none" /\ mgr.num = 0 /\ mgr.max = NoMax
      BY DEF Init, NoCall, FreshMgr
<1>2. BookInv
      BY <1>1 DEF BookInv, TextKept
<1> QED BY <1>1, <1>2 DEF Reading!Init

LEMMA SameBook ==
  ASSUME UNCHANGED <<doc, seen, mgr>>, mode = "off" <=> mode' = "off",
         newPage' = newPage, newPage => shown' = shown
  PROVE  UNCHANGED Reading!bookVars
<1>1. UNCHANGED ShownTokens(doc)
      OBVIOUS
<1>2. (IF newPage THEN shown ELSE <<>>)' = IF newPage THEN shown ELSE <<>>
      OBVIOUS
<1>3. (mode # "off")' = (mode # "off")
      OBVIOUS
<1> QED BY <1>1, <1>2, <1>3 DEF Reading!bookVars

LEMMA SameReading ==
  ASSUME ReadInv, UNCHANGED <<doc, parser, seen>> PROVE ReadInv'
BY DEF ReadInv

\* Steps that neither draw nor turn to a page.
LEMMA QuietStep ==
  ASSUME BookInv, UNCHANGED <<doc, mode, parser, mgr, newPage, shown, seen>>,
         st' \in {"draw", "shown"} => st' = st /\ call' = call,
         call'.op = "get" => mode \in {"plain", "fast"} /\ call'.n <= MaxPage,
         call'.op = "serial" => mode = "serial"
  PROVE  BookInv' /\ UNCHANGED Reading!bookVars
<1>1. UNCHANGED Reading!bookVars
      BY SameBook
<1>2. ReadInv => ReadInv'
      BY SameReading
<1>3. TextKept'
      BY DEF BookInv, TextKept, Upcoming
<1> QED BY <1>1, <1>2, <1>3 DEF BookInv

LEMMA FillStep ==
  ASSUME TypeOK, BookInv, FillBuffer
  PROVE  BookInv' /\ UNCHANGED Reading!bookVars
<1> DEFINE b == Fill(doc, parser.off, parser.resume)
<1>1. /\ UNCHANGED <<doc, mode, mgr, call, newPage, st, shown, seen>>
      /\ st = "draw" /\ parser.buf = <<>>
      /\ parser'.off = b.off /\ parser'.buf = b.glyphs /\ parser'.resume = b.resume
      BY DEF FillBuffer, input, frame, drawn
<1>2. doc \in Seq(Token) /\ WordMax \in Nat /\ parser.resume \in BOOLEAN
      BY EngineAssumption, ParserFields DEF EngineAssumption, TypeOK
<1>3. ASSUME ReadInv PROVE ReadInv'
  <2> DEFINE f == Front(b.off, b.glyphs)
  <2>1. Parsed(doc, parser.off, <<>>, parser.resume)
        BY <1>1, <1>3 DEF ReadInv
  <2>2. Parsed(doc, b.off, b.glyphs, b.resume) /\ f > parser.off /\ Gap(doc, parser.off, f)
        BY <1>2, <2>1, FillParsed
  <2>3. seen = {k \in ShownTokens(doc) : k < parser.off + 1} /\ parser.off \in Nat
        BY <1>1, <1>3, <1>2, DocFacts DEF ReadInv, Front, Parsed
  <2>4. f \in Nat
        BY <1>2, <2>2, DocFacts DEF Front, Parsed
  <2> HIDE DEF f, b
  <2>5. \A k \in ShownTokens(doc) : k < parser.off + 1 <=> k < f
        BY <1>2, <2>2, <2>3, <2>4, DocFacts DEF Gap
  <2>6. seen = {k \in ShownTokens(doc) : k < f}
        BY <2>3, <2>5
  <2> QED BY <1>1, <2>2, <2>6 DEF ReadInv, f, b
<1>4. UNCHANGED Reading!bookVars
      BY <1>1, SameBook
<1> QED BY <1>1, <1>3, <1>4 DEF BookInv, TextKept

\* The state in which a glyph is taken from the parser.
LEMMA TakingFacts ==
  ASSUME TypeOK, TurnInv, ForwardInv, BookInv, NEW g, TakesGlyph(g)
  PROVE  /\ st = "draw" /\ parser.buf # <<>> /\ g = Head(parser.buf) /\ g \in Nat
         /\ doc \in Seq(Token) /\ parser.buf \in Seq(Nat)
         /\ call.op \in {"get", "serial"} /\ (newPage <=> call.op = "get")
         /\ newPage => /\ page = mgr.num /\ page <= MaxPage /\ mgr.max = NoMax
                       /\ mode \in {"plain", "fast"} /\ ReadInv
<1>1. st = "draw" /\ parser.buf # <<>> /\ g = Head(parser.buf)
      BY DEF TakesGlyph
<1>2. /\ doc \in Seq(Token) /\ parser.buf \in Seq(Nat) /\ call.op \in {"none", "get", "all", "serial"}
      /\ mgr.num \in Nat /\ mgr.max \in Nat /\ newPage \in BOOLEAN
      BY EngineAssumption, ParserFields, MgrFields, CallFields DEF EngineAssumption, TypeOK
<1>3. g \in Nat
      BY <1>1, <1>2, HeadTailProperties
<1>4. call.op \in {"get", "serial"} /\ (newPage <=> call.op = "get")
      BY <1>1, <1>2 DEF TurnInv, BookInv
<1>5. newPage => page = call.n /\ call.n <= mgr.max /\ call.n = mgr.num /\ call.n <= MaxPage
      BY <1>1, <1>4 DEF TurnInv, ForwardInv, BookInv
<1>6. newPage => mgr.max = NoMax
      BY <1>2, <1>5 DEF ForwardInv
<1>7. newPage => mode \in {"plain", "fast"} /\ ReadInv
      BY <1>4 DEF BookInv
<1> QED BY <1>1, <1>2, <1>3, <1>4, <1>5, <1>6, <1>7

LEMMA DrawStep ==
  ASSUME TypeOK, TurnInv, ForwardInv, BookInv, NEW g, DrawGlyph(g)
  PROVE  BookInv' /\ [Reading!Next]_(Reading!bookVars)
<1>0. TakesGlyph(g) /\ g # EofGlyph(doc)
      BY DEF DrawGlyph
<1>1. /\ st = "draw" /\ parser.buf # <<>> /\ g = Head(parser.buf) /\ g \in Nat
      /\ doc \in Seq(Token) /\ parser.buf \in Seq(Nat)
      /\ call.op \in {"get", "serial"} /\ (newPage <=> call.op = "get")
      /\ newPage => mgr.max = NoMax /\ mode \in {"plain", "fast"} /\ ReadInv
      BY <1>0, TakingFacts
<1>2. /\ UNCHANGED <<doc, mode, mgr, call, newPage, st>>
      /\ parser' = [parser EXCEPT !.buf = Tail(@)] /\ shown' = Append(shown, g)
      /\ seen' = IF newPage THEN seen \cup {g} ELSE seen
      BY DEF DrawGlyph, Taken, input, frame
<1>3. CASE ~newPage
  <2>1. call.op = "serial" /\ mode = "serial" /\ seen' = seen
        BY <1>1, <1>2, <1>3 DEF BookInv
  <2>2. BookInv'
        BY <1>1, <1>2, <1>3, <2>1 DEF BookInv, TextKept
  <2>3. UNCHANGED Reading!bookVars
        BY <1>2, <1>3, <2>1, SameBook
  <2> QED BY <2>2, <2>3
<1>4. CASE newPage
  <2> DEFINE T == ShownTokens(doc)
             t == Tail(parser.buf)
             f == Front(parser.off, t)
  <2>1. /\ Parsed(doc, parser.off, parser.buf, parser.resume)
        /\ seen = {k \in T : k < g}
    <3>1. Front(parser.off, parser.buf) = g
          BY <1>1 DEF Front
    <3> QED BY <1>1, <1>4, <3>1 DEF ReadInv
  <2>2. /\ Parsed(doc, parser.off, t, parser.resume)
        /\ g \in T /\ g < f /\ Gap(doc, g, f)
        BY <1>0, <1>1, <2>1, TakeParsed
  <2>3. parser'.off = parser.off /\ parser'.buf = t /\ parser'.resume = parser.resume
        BY <1>2, ParserFields DEF TypeOK, ParserType
  <2>4. f \in Nat /\ \A k \in T : k \in Nat
    <3>1. /\ Len(doc) \in Nat /\ \A k \in T : k \in 1 .. Len(doc)
          BY <1>1, DocFacts
    <3>2. parser.off \in Nat
          BY ParserFields DEF TypeOK
    <3>3. t \in Seq(Nat)
          BY <1>1, HeadTailProperties
    <3> HIDE DEF t
    <3>4. t # <<>> => t[1] \in Nat
      <4>1. t # <<>> => Len(t) \in Nat /\ Len(t) # 0
            BY <3>3, LenProperties, EmptySeq
      <4> QED BY <3>3, <4>1, ElementOfSeq
    <3> QED BY <3>1, <3>2, <3>4 DEF Front
  <2> HIDE DEF f
  <2>5. seen' = seen \cup {g}
        BY <1>2, <1>4
  <2>6. seen' = {k \in T : k < f}
    <3>1. \A k \in T : k < f <=> k < g \/ k = g
          BY <1>1, <2>2, <2>4 DEF Gap
    <3> QED BY <2>1, <2>2, <2>5, <3>1
  <2>7. ReadInv'
        BY <1>2, <2>2, <2>3, <2>6 DEF ReadInv, f
  <2>8. BookInv'
        BY <1>1, <1>2, <1>4, <2>7 DEF BookInv, TextKept
  <2>9. Reading!Show
    <3>1. mode # "off" /\ ~(mgr.max # NoMax)
          BY <1>1, <1>4
    <3>2. g \in T \ seen
          BY <1>1, <2>1, <2>2
    <3>3. \A j \in T \ seen : g <= j
          BY <1>1, <2>1, <2>4
    <3>4. (IF newPage THEN shown ELSE <<>>)' = Append(IF newPage THEN shown ELSE <<>>, g)
          BY <1>2, <1>4
    <3>5. /\ ShownTokens(doc)' = ShownTokens(doc) /\ (mode # "off")' = (mode # "off")
          /\ (mgr.num)' = mgr.num /\ (mgr.max # NoMax)' = (mgr.max # NoMax)
          BY <1>2
    <3> QED BY <2>5, <3>1, <3>2, <3>3, <3>4, <3>5 DEF Reading!Show
  <2> QED BY <2>8, <2>9 DEF Reading!Next
<1> QED BY <1>1, <1>3, <1>4

LEMMA BreakStep ==
  ASSUME TypeOK, TurnInv, ForwardInv, BookInv, NEW g, BreakPage(g)
  PROVE  BookInv' /\ [Reading!Next]_(Reading!bookVars)
<1>0. TakesGlyph(g) /\ g # EofGlyph(doc)
      BY DEF BreakPage
<1>1. /\ st = "draw" /\ parser.buf # <<>> /\ g = Head(parser.buf) /\ g \in Nat
      /\ doc \in Seq(Token) /\ parser.buf \in Seq(Nat)
      /\ call.op \in {"get", "serial"} /\ (newPage <=> call.op = "get")
      /\ newPage => /\ page = mgr.num /\ mgr.max = NoMax
                    /\ mode \in {"plain", "fast"} /\ ReadInv
      BY <1>0, TakingFacts
<1>2. /\ UNCHANGED <<doc, mode, call, newPage, shown, seen>> /\ st' = "shown"
      /\ parser' = GivenBack
      /\ IF call.op = "serial" THEN mgr' = mgr ELSE EndPage(mgr)
      BY DEF BreakPage, PageDone, input, drawn
<1>3. CASE ~newPage
  <2>1. call.op = "serial" /\ mode = "serial" /\ mgr' = mgr
        BY <1>1, <1>2, <1>3 DEF BookInv
  <2>2. BookInv'
        BY <1>1, <1>2, <1>3, <2>1 DEF BookInv, TextKept
  <2>3. UNCHANGED Reading!bookVars
        BY <1>2, <1>3, <2>1, SameBook
  <2> QED BY <2>2, <2>3
<1>4. CASE newPage
  <2> DEFINE T == ShownTokens(doc)
  <2>1. parser' = parser
        BY <1>2, <1>4 DEF GivenBack
  <2>2. Front(parser.off, parser.buf) = g /\ Upcoming = g
        BY <1>1 DEF Front, Upcoming
  <2>3. /\ Parsed(doc, parser.off, parser.buf, parser.resume)
        /\ seen = {k \in T : k < g}
        BY <1>1, <1>4, <2>2 DEF ReadInv
  <2>4. ReadInv'
        BY <1>1, <1>2, <1>4, <2>1, SameReading
  <2>5. TextKept'
        BY <1>2, <2>1, <2>2, <2>3 DEF TextKept, Upcoming
  <2>6. BookInv'
        BY <1>1, <1>2, <1>4, <2>4, <2>5 DEF BookInv
  <2>7. mgr'.max = mgr.max /\ mgr'.num = mgr.num + 1
        BY <1>1, <1>2, <1>4, EndPageMgr DEF TypeOK
  <2>8. Reading!FinishPage
    <3>1. mode # "off" /\ ~(mgr.max # NoMax)
          BY <1>1, <1>4
    <3>2. g \in T
          BY <1>0, <1>1, <2>3, TakeParsed
    <3>3. seen # T
          BY <1>1, <2>3, <3>2
    <3>4. (IF newPage THEN shown ELSE <<>>)' = IF newPage THEN shown ELSE <<>>
          BY <1>2
    <3>5. /\ ShownTokens(doc)' = ShownTokens(doc) /\ (mode # "off")' = (mode # "off")
          /\ seen' = seen /\ (mgr.max # NoMax)' = (mgr.max # NoMax)
          BY <1>2, <2>7
    <3> QED BY <2>7, <3>1, <3>3, <3>4, <3>5 DEF Reading!FinishPage
  <2> QED BY <2>6, <2>8 DEF Reading!Next
<1> QED BY <1>1, <1>3, <1>4

LEMMA EndStep ==
  ASSUME TypeOK, TurnInv, ForwardInv, BookInv, NEW g, EndDocument(g)
  PROVE  BookInv' /\ [Reading!Next]_(Reading!bookVars)
<1> DEFINE m == [mgr EXCEPT !.max = page]
<1>0. TakesGlyph(g) /\ g = EofGlyph(doc)
      BY DEF EndDocument
<1>1. /\ st = "draw" /\ parser.buf # <<>> /\ g = Head(parser.buf) /\ g \in Nat
      /\ doc \in Seq(Token) /\ parser.buf \in Seq(Nat)
      /\ call.op \in {"get", "serial"} /\ (newPage <=> call.op = "get")
      /\ newPage => /\ page = mgr.num /\ page <= MaxPage /\ mgr.max = NoMax
                    /\ mode \in {"plain", "fast"} /\ ReadInv
      BY <1>0, TakingFacts
<1>2. /\ UNCHANGED <<doc, mode, call, newPage, shown, seen>> /\ st' = "shown"
      /\ parser' = [parser EXCEPT !.buf = Tail(@)]
      /\ IF call.op = "serial" THEN mgr' = mgr ELSE EndPage(m)
      BY DEF EndDocument, PageDone, Taken, input, drawn
<1>3. CASE ~newPage
  <2>1. call.op = "serial" /\ mode = "serial" /\ mgr' = mgr
        BY <1>1, <1>2, <1>3 DEF BookInv
  <2>2. BookInv'
        BY <1>1, <1>2, <1>3, <2>1 DEF BookInv, TextKept
  <2>3. UNCHANGED Reading!bookVars
        BY <1>2, <1>3, <2>1, SameBook
  <2> QED BY <2>2, <2>3
<1>4. CASE newPage
  <2> DEFINE T == ShownTokens(doc)
  <2>1. Front(parser.off, parser.buf) = g
        BY <1>1 DEF Front
  <2>2. /\ Parsed(doc, parser.off, parser.buf, parser.resume)
        /\ seen = {k \in T : k < g}
        BY <1>1, <1>4, <2>1 DEF ReadInv
  <2>3. /\ Parsed(doc, parser.off, <<>>, parser.resume)
        /\ Tail(parser.buf) = <<>> /\ parser.off = Len(doc)
        BY <1>0, <1>1, <2>2, TakeParsed
  <2>4. seen = T
    <3>1. \A k \in T : k \in 1 .. Len(doc)
          BY <1>1, DocFacts
    <3>2. Len(doc) \in Nat /\ g = Len(doc) + 1
          BY <1>0, <1>1, DocFacts
    <3> HIDE DEF T
    <3>3. \A k \in T : k < g
          BY <3>1, <3>2
    <3> QED BY <2>2, <3>3
  <2>5. parser'.off = parser.off /\ parser'.buf = <<>> /\ parser'.resume = parser.resume
        BY <1>2, <2>3, ParserFields DEF TypeOK, ParserType
  <2>6. Front(parser'.off, parser'.buf) = g /\ Upcoming' = g
        BY <1>0, <1>1, <1>2, <2>3, <2>5, DocFacts DEF Front, Upcoming
  <2>7. ReadInv'
        BY <1>2, <2>2, <2>3, <2>5, <2>6 DEF ReadInv
  <2>8. TextKept'
        BY <1>2, <2>2, <2>6 DEF TextKept
  <2>9. BookInv'
        BY <1>1, <1>2, <1>4, <2>7, <2>8 DEF BookInv
  <2>10. mgr'.max = page /\ mgr'.num = mgr.num + 1
    <3>1. m \in MgrType /\ m.max = page /\ m.num = mgr.num
          BY MgrFields DEF TypeOK, MgrType
    <3> HIDE DEF m
    <3> QED BY <1>1, <1>2, <1>4, <3>1, EndPageMgr
  <2>11. mgr'.max # NoMax
    <3>1. MaxPage \in 0 .. NoMax - 1
          BY EngineAssumption DEF EngineAssumption
    <3>2. MaxPage \in Nat /\ MaxPage < NoMax /\ NoMax \in Nat
          BY <3>1 DEF NoMax
    <3>3. page \in Nat /\ page <= MaxPage
          BY <1>1, <1>4 DEF TypeOK
    <3>4. page # NoMax
          BY <3>2, <3>3
    <3> QED BY <2>10, <3>4
  <2>12. Reading!FinishLastPage
    <3>1. mode # "off" /\ ~(mgr.max # NoMax)
          BY <1>1, <1>4
    <3>2. (IF newPage THEN shown ELSE <<>>)' = IF newPage THEN shown ELSE <<>>
          BY <1>2
    <3>3. /\ ShownTokens(doc)' = ShownTokens(doc) /\ (mode # "off")' = (mode # "off")
          /\ seen' = seen /\ (mgr.max # NoMax)'
          BY <1>2, <2>11
    <3> QED BY <2>4, <2>10, <3>1, <3>2, <3>3 DEF Reading!FinishLastPage
  <2> QED BY <2>9, <2>12 DEF Reading!Next
<1> QED BY <1>1, <1>3, <1>4

\* The next page is begun: the parser stays where it is, on an empty page.
LEMMA RenderStep ==
  ASSUME TypeOK, TurnInv, ForwardInv, BookInv, DisplayPage
  PROVE  BookInv' /\ [Reading!Next]_(Reading!bookVars)
<1>1. /\ UNCHANGED <<doc, mode, mgr, call, seen>> /\ st = "display" /\ st' = "draw"
      /\ shown' = <<>> /\ newPage' = (call.n = mgr.num)
      /\ IF call.n = mgr.num THEN StartPage(call.n) ELSE RestorePage(call.n)
      BY DEF DisplayPage, Render, input
<1>2. call.op = "get" /\ call.n = mgr.num
      BY <1>1 DEF TurnInv, ForwardInv
<1>3. parser' = parser /\ newPage' = TRUE
      BY <1>1, <1>2 DEF StartPage
<1>4. mode \in {"plain", "fast"} /\ ReadInv
      BY <1>2 DEF BookInv
<1>5. ReadInv'
      BY <1>1, <1>3, <1>4, SameReading
<1>6. BookInv'
      BY <1>1, <1>2, <1>3, <1>4, <1>5 DEF BookInv, TextKept
<1>7. Reading!NewSheet
  <2>1. (IF newPage THEN shown ELSE <<>>)' = <<>> /\ mode # "off"
        BY <1>1, <1>4
  <2>2. /\ ShownTokens(doc)' = ShownTokens(doc) /\ (mode # "off")' = (mode # "off")
        /\ seen' = seen /\ (mgr.num)' = mgr.num /\ (mgr.max # NoMax)' = (mgr.max # NoMax)
        BY <1>1
  <2> QED BY <2>1, <2>2 DEF Reading!NewSheet
<1> QED BY <1>6, <1>7 DEF Reading!Next

LEMMA StartStep ==
  ASSUME TypeOK, TurnInv, BookInv, NEW m \in Modes, Start(m)
  PROVE  BookInv' /\ [Reading!Next]_(Reading!bookVars)
<1>1. /\ UNCHANGED <<doc, call, newPage, st, shown>> /\ mode = "off" /\ mode' = m /\ seen' = {}
      /\ parser' = FreshParser /\ mgr' = FreshMgr
      BY DEF Start, frame
<1>2. m \in {"plain", "fast", "serial"} /\ doc \in Seq(Token)
      BY EngineAssumption DEF EngineAssumption, TypeOK
<1>3. st = "idle" /\ call.op = "none" /\ newPage = FALSE
      BY <1>1 DEF TurnInv, BookInv, TypeOK
<1>4. ReadInv'
  <2>1. Parsed(doc, 0, <<>>, FALSE)
    <3>1. Len(<<>>) = 0
          OBVIOUS
    <3> QED BY <1>2, <3>1, DocFacts DEF Parsed, AtTag, Chain
  <2>2. {k \in ShownTokens(doc) : k < 0 + 1} = {}
        BY <1>2, DocFacts
  <2> QED BY <1>1, <2>1, <2>2 DEF ReadInv, Front, FreshParser
<1>5. BookInv'
      BY <1>1, <1>2, <1>3, <1>4 DEF BookInv, TextKept
<1>6. Reading!Open
  <2>1. (IF newPage THEN shown ELSE <<>>)' = IF newPage THEN shown ELSE <<>>
        BY <1>1
  <2>2. /\ ~(mode # "off") /\ (mode # "off")' /\ ShownTokens(doc)' = ShownTokens(doc)
        BY <1>1, <1>2
  <2>3. (mgr.num)' = 0 /\ (mgr.max # NoMax)' = FALSE
        BY <1>1 DEF FreshMgr
  <2> QED BY <1>1, <2>1, <2>2, <2>3 DEF Reading!Open
<1> QED BY <1>5, <1>6 DEF Reading!Next

LEMMA StopStep ==
  ASSUME BookInv, Stop
  PROVE  BookInv' /\ [Reading!Next]_(Reading!bookVars)
<1>1. /\ UNCHANGED <<doc, mgr, seen>> /\ mode # "off" /\ mode' = "off" /\ newPage' = FALSE
      /\ call' = NoCall /\ st' = "idle"
      BY DEF Stop
<1>2. BookInv'
      BY <1>1 DEF BookInv, TextKept, NoCall
<1>3. Reading!Close
  <2>1. (IF newPage THEN shown ELSE <<>>)' = <<>>
        BY <1>1
  <2>2. /\ ShownTokens(doc)' = ShownTokens(doc) /\ (mode # "off")' = FALSE
        /\ seen' = seen /\ (mgr.num)' = mgr.num /\ (mgr.max # NoMax)' = (mgr.max # NoMax)
        BY <1>1
  <2> QED BY <1>1, <2>1, <2>2 DEF Reading!Close
<1> QED BY <1>2, <1>3 DEF Reading!Next

\* Serialized mode restores a page, and draws nothing for the first time.
LEMMA SerialStep ==
  ASSUME BookInv, NEW p, GetSerialized(p)
  PROVE  BookInv' /\ UNCHANGED Reading!bookVars
<1>1. /\ UNCHANGED <<doc, mode, mgr, seen>> /\ mode = "serial" /\ newPage' = FALSE
      /\ st' = "draw" /\ call'.op = "serial"
      BY DEF GetSerialized, input
<1>2. newPage = FALSE
      BY <1>1 DEF BookInv
<1>3. UNCHANGED Reading!bookVars
      BY <1>1, <1>2, SameBook
<1> QED BY <1>1, <1>3 DEF BookInv, TextKept

LEMMA BookStep ==
  ASSUME LookBack = FALSE, JumpAhead = FALSE, CountAll = FALSE,
         TypeOK, TurnInv, ForwardInv, BookInv, [Next]_vars
  PROVE  BookInv' /\ [Reading!Next]_(Reading!bookVars)
<1> DEFINE Goal == BookInv' /\ [Reading!Next]_(Reading!bookVars)
           Quiet == UNCHANGED <<doc, mode, parser, mgr, newPage, shown, seen>>
<1>0. call.n \in Nat /\ mgr.num \in Nat
      BY MgrFields, CallFields DEF TypeOK
<1>1. CASE DisplayPage
      BY <1>1, RenderStep
<1>2. CASE DisplayAhead
      BY <1>0, <1>2 DEF DisplayAhead, TurnInv
<1>3. CASE AheadLoop \/ AheadLast \/ AheadEnd \/ GetMaxPage \/ ReturnAll
      BY <1>3 DEF AheadLoop, AheadLast, AheadEnd, GetMaxPage, ReturnAll, TurnInv
<1>4. CASE Displayed
  <2>1. Quiet /\ st' = "return" /\ call' = call
        BY <1>4 DEF Displayed, input, frame, drawn
  <2> QED BY <2>1, QuietStep DEF BookInv
<1>5. CASE ReturnPage \/ ReturnSerialized
  <2>1. Quiet /\ st' = "idle" /\ call'.op = "none"
        BY <1>5 DEF ReturnPage, ReturnSerialized, NoCall, input, drawn
  <2> QED BY <2>1, QuietStep
<1>6. CASE FillBuffer
      BY <1>6, FillStep
<1>7. ASSUME NEW g, DrawGlyph(g) \/ BreakPage(g) \/ EndDocument(g) PROVE Goal
      BY <1>7, DrawStep, BreakStep, EndStep
<1>8. ASSUME NEW m \in Modes, Start(m) PROVE Goal
      BY <1>8, StartStep
<1>9. CASE Stop
      BY <1>9, StopStep
<1>10. ASSUME NEW n \in 0 .. MaxPage, GetPage(n) PROVE Goal
  <2>1. /\ Quiet /\ mode \in {"plain", "fast"} /\ st' = "display"
        /\ call'.op = "get" /\ call'.n = n
        BY <1>10 DEF GetPage, input, drawn
  <2>2. n <= MaxPage
        BY EngineAssumption DEF EngineAssumption, NoMax
  <2> QED BY <2>1, <2>2, QuietStep
<1>11. CASE FreePage
  <2>1. Quiet /\ st' = st /\ call' = call
        BY <1>11 DEF FreePage, input, frame, drawn
  <2> QED BY <2>1, QuietStep DEF BookInv
<1>12. ASSUME NEW n \in 0 .. MaxPage, GetSerialized(n) PROVE Goal
      BY <1>12, SerialStep
<1>13. CASE UNCHANGED vars
  <2>1. Quiet /\ st' = st /\ call' = call
        BY <1>13 DEF vars, input, frame, drawn
  <2> QED BY <2>1, QuietStep DEF BookInv
<1> QED BY <1>1, <1>2, <1>3, <1>4, <1>5, <1>6, <1>7, <1>8, <1>9, <1>10, <1>11, <1>12, <1>13
        DEF Next, Engine, Client

\* For a reader who only turns to the next page the pages tile the text, in
\* every document and page geometry: what was drawn when a page is finished
\* is exactly what lies before the glyph the next page begins with.
THEOREM PagesTileText ==
  ASSUME LookBack = FALSE, JumpAhead = FALSE, CountAll = FALSE
  PROVE  Spec => []TextKept
<1>1. TypeOK /\ TurnInv /\ ForwardInv /\ BookInv /\ [Next]_vars
        => TurnInv' /\ ForwardInv' /\ BookInv'
      BY TurnStep, BookStep
<1>2. BookInv => TextKept
      BY DEF BookInv
<1> QED BY <1>1, <1>2, TurnInit, BookInit, TypeInit, TypeStep, PTL DEF Spec

\* To such a reader the engine is the book that hg.h promises, through any
\* sequence of engines that are closed or die at any step: each page goes on
\* where the one before stopped, and the last one ends with the text.
THEOREM ReaderSeesBook ==
  ASSUME LookBack = FALSE, JumpAhead = FALSE, CountAll = FALSE
  PROVE  Spec => ShowsBook
<1>1. TypeOK /\ TurnInv /\ ForwardInv /\ BookInv /\ [Next]_vars
        => /\ TurnInv' /\ ForwardInv' /\ BookInv'
           /\ [Reading!Next]_(Reading!bookVars)
      BY TurnStep, BookStep
<1>2. Init => BookInv /\ Reading!Init
      BY BookInit
<1> QED BY <1>1, <1>2, TurnInit, TypeInit, TypeStep, PTL DEF Spec, ShowsBook, Reading!Spec

-----------------------------------------------------------------------------
(* A page that is shown again.  Its file has the front of the parser at the *)
(* time the page was begun.  Batches skip blanks, or do not, depending on   *)
(* resumeProcWord, which the file does not have; nothing else lies between  *)
(* that front and the first glyph drawn, the first time and each time after.*)

Blanks(d, a, b) == a <= b /\ \A k \in 1 .. Len(d) : a <= k /\ k < b => d[k] \in BlankChars \cup {"L"}

FilesBegin ==
  /\ parser.off \in 0 .. Len(doc)
  /\ \A p \in DOMAIN pg : pg[p].off \in 0 .. Len(doc)
  /\ \A p \in DOMAIN pg :
       content[p] # <<>> => Blanks(doc, Front(pg[p].off, pg[p].buf), content[p][1])

PageBegins ==
  st \in {"draw", "shown"} /\ (newPage \/ Complete(page)) =>
    LET front == Front(pg[page].off, pg[page].buf)
    IN  /\ page \in DOMAIN pg
        /\ shown # <<>> => Blanks(doc, front, shown[1])
        /\ shown = <<>> /\ st = "draw" => Blanks(doc, front, Front(parser.off, parser.buf))
        /\ newPage /\ st = "draw" => shown = content[page]

BeginInv == FilesBegin /\ PageBegins

LEMMA FrontType ==
  ASSUME NEW off \in Nat, NEW buf \in Seq(Nat)
  PROVE  Front(off, buf) \in Nat
<1>1. buf # <<>> => buf[1] \in Nat
      BY EmptySeq, LenProperties, ElementOfSeq
<1> QED BY <1>1 DEF Front

LEMMA BlanksMeet ==
  ASSUME NEW d \in Seq(Token), NEW a \in Nat, NEW b \in Nat, NEW c \in Nat,
         Blanks(d, a, b), Blanks(d, b, c)
  PROVE  Blanks(d, a, c)
<1>1. Len(d) \in Nat
      BY DocFacts
<1> QED BY <1>1 DEF Blanks

LEMMA NoBlanks ==
  ASSUME NEW d \in Seq(Token), NEW a \in Nat
  PROVE  Blanks(d, a, a)
<1>1. Len(d) \in Nat
      BY DocFacts
<1> QED BY <1>1 DEF Blanks

\* Words begin where they are told to, or a batch without words moves nothing.
LEMMA WordsBegin ==
  ASSUME NEW d \in Seq(Token), NEW o \in 0 .. Len(d), NEW a, WordMax \in Nat
  PROVE  LET b == Words(d, o, a)
         IN  b.off \in 0 .. Len(d) /\ Front(b.off, b.glyphs) = o + 1
<1> DEFINE b == Words(d, o, a)
           e == WordsEnd(d, o)
           n == Len(b.glyphs)
<1>1. e \in Nat /\ o \in Nat /\ Len(d) \in Nat /\ o + 1 <= e /\ e <= Len(d) + 1
      BY WordsEndIs, DocFacts
<1>2. /\ b.glyphs \in Seq(Nat) /\ \A i \in 1 .. n : b.glyphs[i] = o + i
      /\ \/ b.resume = TRUE /\ b.off = o + n /\ o + n <= e - 1 /\ n > 0
         \/ b.resume = FALSE /\ b.off = e - 1 /\ e # Len(d) + 1 /\ o + n = e - 1
         \/ b.resume = FALSE /\ b.off = e - 1 /\ e = Len(d) + 1 /\ o + n = e
      BY WordsAre
<1>3. n \in Nat /\ (b.glyphs = <<>> <=> n = 0)
      BY <1>2, LenProperties, EmptySeq
<1> HIDE DEF b, e, n
<1>4. b.off \in 0 .. Len(d) /\ (n = 0 => b.off = o)
  <2>1. b.off = o + n \/ (b.off = e - 1 /\ (o + n = e - 1 \/ o + n = e))
        BY <1>2
  <2>2. b.off <= e - 1 /\ b.off \in Nat
        BY <1>1, <1>2, <1>3, <2>1
  <2>3. n = 0 => b.off = o
        BY <1>1, <1>2, <1>3
  <2> QED BY <1>1, <2>2, <2>3
<1>5. n # 0 => b.glyphs[1] = o + 1
      BY <1>2, <1>3
<1> QED BY <1>3, <1>4, <1>5 DEF Front, b

\* A batch skips nothing but blanks and tags without a glyph, whether it is
\* told to go on in the middle of a run of words or not.
LEMMA FillBegins ==
  ASSUME NEW d \in Seq(Token), NEW o \in 0 .. Len(d), NEW r \in BOOLEAN, WordMax \in Nat
  PROVE  LET b == Fill(d, o, r)
         IN  b.off \in 0 .. Len(d) /\ Blanks(d, o + 1, Front(b.off, b.glyphs))
<1> DEFINE f == FirstShown(d, o)
<1>1. /\ Len(d) \in Nat /\ EofGlyph(d) = Len(d) + 1 /\ \A i \in 1 .. Len(d) : d[i] \in Token
      /\ o \in Nat
      BY DocFacts
<1>2. /\ f \in o + 1 .. Len(d) + 1
      /\ \A i \in o + 1 .. f - 1 : d[i] \notin {"c", "n"}
      BY FirstShownIs
<1>3. Blanks(d, o + 1, f)
  <2>1. ASSUME NEW k \in 1 .. Len(d), o + 1 <= k, k < f PROVE d[k] \in BlankChars \cup {"L"}
    <3>1. k \in o + 1 .. f - 1
          BY <1>1, <1>2, <2>1
    <3> QED BY <1>1, <1>2, <3>1 DEF Token, BlankChars
  <2> HIDE DEF f
  <2> QED BY <1>1, <1>2, <2>1 DEF Blanks
<1>4. Blanks(d, o + 1, o + 1)
      BY <1>1, NoBlanks
<1>5. ASSUME NEW g, NEW m, NEW q, NEW b, b = Batch(<<g>>, m, q, FALSE)
      PROVE  b.off = m /\ Front(b.off, b.glyphs) = g
  <2>1. <<g>> # <<>> /\ <<g>>[1] = g
        OBVIOUS
  <2> QED BY <1>5, <2>1 DEF Batch, Front
<1> HIDE DEF f
<1>6. f \in Nat /\ Len(d) \in 0 .. Len(d) /\ f - 1 \in 0 .. Len(d)
      BY <1>1, <1>2
<1>7. CASE o = Len(d)
  <2>1. Fill(d, o, r) = Batch(<<o + 1>>, o, r, FALSE)
        BY <1>1, <1>7 DEF Fill
  <2>2. Fill(d, o, r).off = o /\ Front(Fill(d, o, r).off, Fill(d, o, r).glyphs) = o + 1
        BY <1>5, <2>1
  <2> QED BY <1>4, <2>2
<1>8. CASE o # Len(d) /\ r
  <2>1. Fill(d, o, r) = Words(d, o, FALSE)
        BY <1>8 DEF Fill
  <2> QED BY <1>4, <2>1, WordsBegin
<1>9. CASE o # Len(d) /\ ~r /\ f = Len(d) + 1
  <2>1. Fill(d, o, r) = Batch(<<f>>, Len(d), FALSE, FALSE)
        BY <1>1, <1>9 DEF Fill, f
  <2>2. Fill(d, o, r).off = Len(d) /\ Front(Fill(d, o, r).off, Fill(d, o, r).glyphs) = f
        BY <1>5, <2>1
  <2> QED BY <1>3, <1>6, <2>2
<1>10. CASE o # Len(d) /\ ~r /\ f # Len(d) + 1 /\ d[f] = "n"
  <2>1. Fill(d, o, r) = Batch(<<f>>, f, FALSE, FALSE)
        BY <1>1, <1>10 DEF Fill, f
  <2>2. f \in 0 .. Len(d)
        BY <1>1, <1>2, <1>10
  <2>3. Fill(d, o, r).off = f /\ Front(Fill(d, o, r).off, Fill(d, o, r).glyphs) = f
        BY <1>5, <2>1
  <2> QED BY <1>3, <2>2, <2>3
<1>11. CASE o # Len(d) /\ ~r /\ f # Len(d) + 1 /\ d[f] # "n"
  <2>1. Fill(d, o, r) = Words(d, f - 1, TRUE)
        BY <1>1, <1>11 DEF Fill, f
  <2>2. (f - 1) + 1 = f
        BY <1>6
  <2> QED BY <1>3, <1>6, <2>1, <2>2, WordsBegin
<1> QED BY <1>7, <1>8, <1>9, <1>10, <1>11

LEMMA BeginFacts ==
  ASSUME TypeOK
  PROVE  /\ doc \in Seq(Token) /\ WordMax \in Nat
         /\ parser.off \in Nat /\ parser.buf \in Seq(Nat) /\ parser.resume \in BOOLEAN
         /\ Front(parser.off, parser.buf) \in Nat
         /\ DOMAIN content = DOMAIN pg
         /\ \A p \in DOMAIN pg : /\ pg[p].off \in Nat /\ pg[p].buf \in Seq(Nat)
                                 /\ Front(pg[p].off, pg[p].buf) \in Nat
<1>1. doc \in Seq(Token) /\ WordMax \in Nat
      BY EngineAssumption DEF EngineAssumption, TypeOK
<1>2. parser.off \in Nat /\ parser.buf \in Seq(Nat) /\ parser.resume \in BOOLEAN
      BY ParserFields DEF TypeOK
<1>3. \A p \in DOMAIN pg : pg[p].off \in Nat /\ pg[p].buf \in Seq(Nat)
      BY DEF TypeOK, FilesOK, FileType
<1> QED BY <1>1, <1>2, <1>3, FrontType DEF TypeOK, FilesOK

\* Nothing is being drawn, or nothing moves.
LEMMA QuietBegin ==
  ASSUME BeginInv, UNCHANGED <<doc, parser, pg, content>>,
         \/ st' \notin {"draw", "shown"}
         \/ UNCHANGED <<st, page, newPage, shown>>
  PROVE  BeginInv'
<1>1. FilesBegin'
      BY DEF BeginInv, FilesBegin
<1>2. PageBegins'
      BY DEF BeginInv, PageBegins, Complete
<1> QED BY <1>1, <1>2 DEF BeginInv

\* The front of the parser is the front of the file it was restored from.
LEMMA RestoreBegins ==
  ASSUME TypeOK, BeginInv, NEW p, parser' = Restored(p),
         UNCHANGED <<doc, pg, content>>, page' = p, newPage' = FALSE, shown' = <<>>
  PROVE  BeginInv'
<1>1. FilesBegin /\ parser' \in [off : {parser'.off}, buf : {parser'.buf}, resume : BOOLEAN]
      BY DEF BeginInv, Restored, TypeOK, ParserType
<1>2. /\ doc \in Seq(Token) /\ Len(doc) \in Nat
      /\ parser \in ParserType
      BY BeginFacts, DocFacts DEF TypeOK
<1>3. CASE Complete(p)
  <2>1. p \in DOMAIN pg /\ parser'.off = pg[p].off /\ parser'.buf = pg[p].buf
        BY <1>2, <1>3 DEF Restored, Complete, ParserType
  <2>2. FilesBegin'
        BY <1>1, <2>1 DEF FilesBegin
  <2>3. Blanks(doc, Front(pg[p].off, pg[p].buf), Front(pg[p].off, pg[p].buf))
        BY <1>2, <2>1, BeginFacts, NoBlanks
  <2>4. PageBegins'
        BY <2>1, <2>3 DEF PageBegins
  <2> QED BY <2>2, <2>4 DEF BeginInv
<1>4. CASE ~Complete(p)
  <2>1. parser'.off = 0
        BY <1>2, <1>4 DEF Restored, ParserType
  <2>2. FilesBegin'
        BY <1>1, <1>2, <2>1 DEF FilesBegin
  <2>3. PageBegins'
        BY <1>4 DEF PageBegins, Complete
  <2> QED BY <2>2, <2>3 DEF BeginInv
<1> QED BY <1>3, <1>4

\* A page begun for the first time gets a file with the parser's front.
LEMMA RenderBegins ==
  ASSUME TypeOK, BeginInv, NEW p, Render(p), doc' = doc
  PROVE  BeginInv'
<1>1. /\ page' = p /\ newPage' = (p = mgr.num) /\ st' = "draw" /\ shown' = <<>>
      /\ IF p = mgr.num THEN StartPage(p) ELSE RestorePage(p)
      BY DEF Render
<1>2. CASE p # mgr.num
      BY <1>1, <1>2, RestoreBegins DEF RestorePage, files
<1>3. CASE p = mgr.num
  <2>1. /\ parser' = parser
        /\ DOMAIN pg' = DOMAIN pg \cup {p}
        /\ \A q \in DOMAIN pg' : pg'[q] = IF q = p THEN ShadowState ELSE pg[q]
        /\ \A q \in DOMAIN pg' : content'[q] = IF q = p THEN <<>> ELSE content[q]
        BY <1>1, <1>3, BeginFacts DEF StartPage, Write
  <2>2. ShadowState.off = parser.off /\ ShadowState.buf = parser.buf
        BY DEF ShadowState
  <2>3. FilesBegin'
        BY <2>1, <2>2 DEF BeginInv, FilesBegin
  <2>4. Blanks(doc, Front(parser.off, parser.buf), Front(parser.off, parser.buf))
        BY BeginFacts, NoBlanks
  <2>5. p \in DOMAIN pg' /\ content'[p] = <<>> /\ pg'[p] = ShadowState
        BY <2>1
  <2>6. PageBegins'
        BY <1>1, <2>1, <2>2, <2>4, <2>5 DEF PageBegins
  <2> QED BY <2>3, <2>6 DEF BeginInv
<1> QED BY <1>2, <1>3

LEMMA FillKeepsBegin ==
  ASSUME TypeOK, BeginInv, FillBuffer
  PROVE  BeginInv'
<1> DEFINE b == Fill(doc, parser.off, parser.resume)
<1>1. /\ UNCHANGED <<doc, pg, content, st, page, newPage, shown>>
      /\ st = "draw" /\ parser.buf = <<>>
      /\ parser' = [off |-> b.off, buf |-> b.glyphs, resume |-> b.resume]
      BY DEF FillBuffer, input, files, frame, drawn
<1>2. b.off \in 0 .. Len(doc) /\ Blanks(doc, parser.off + 1, Front(b.off, b.glyphs))
      BY BeginFacts, FillBegins DEF BeginInv, FilesBegin
<1>3. Front(b.off, b.glyphs) \in Nat
      BY BeginFacts, FillType, FrontType DEF BatchType
<1> HIDE DEF b
<1>4. parser'.off = b.off /\ parser'.buf = b.glyphs
      BY <1>1
<1>5. FilesBegin'
      BY <1>1, <1>2, <1>4 DEF BeginInv, FilesBegin
<1>6. Front(parser.off, parser.buf) = parser.off + 1
      BY <1>1 DEF Front
<1>7. SUFFICES ASSUME newPage \/ Complete(page)
               PROVE  PageBegins'
      BY <1>1, <1>5 DEF BeginInv, PageBegins, Complete
<1>8. page \in DOMAIN pg
      BY <1>1, <1>7 DEF BeginInv, PageBegins
<1>9. shown = <<>> => Blanks(doc, Front(pg[page].off, pg[page].buf), Front(b.off, b.glyphs))
  <2>1. shown = <<>> => Blanks(doc, Front(pg[page].off, pg[page].buf), parser.off + 1)
        BY <1>1, <1>6, <1>7 DEF BeginInv, PageBegins
  <2>2. parser.off + 1 \in Nat
        BY BeginFacts
  <2> QED BY <1>2, <1>3, <1>8, <2>1, <2>2, BeginFacts, BlanksMeet
<1> QED BY <1>1, <1>4, <1>7, <1>8, <1>9 DEF BeginInv, PageBegins

\* The first glyph drawn is the one the parser's front is at.
LEMMA DrawKeepsBegin ==
  ASSUME TypeOK, BeginInv, NEW g, DrawGlyph(g)
  PROVE  BeginInv'
<1>1. /\ UNCHANGED <<doc, pg, st, page, newPage>> /\ st = "draw"
      /\ parser.buf # <<>> /\ g = Head(parser.buf) /\ parser' = Taken
      /\ shown' = Append(shown, g)
      /\ content' = IF newPage THEN [content EXCEPT ![page] = Append(@, g)] ELSE content
      BY DEF DrawGlyph, TakesGlyph, input, frame
<1>2. Front(parser.off, parser.buf) = g /\ g \in Nat /\ parser'.off = parser.off
  <2>1. parser.buf \in Seq(Nat) /\ parser.buf # <<>>
        BY <1>1, BeginFacts
  <2>2. g = parser.buf[1] /\ g \in Nat
        BY <1>1, <2>1, HeadTailProperties, EmptySeq, LenProperties
  <2>3. parser'.off = parser.off
        BY <1>1 DEF Taken, TypeOK, ParserType
  <2> QED BY <2>1, <2>2, <2>3 DEF Front
<1>3. shown \in Seq(Nat) /\ shown' # <<>> /\ shown'[1] = IF shown = <<>> THEN g ELSE shown[1]
  <2>1. shown \in Seq(Nat)
        BY DEF TypeOK
  <2>2. Len(shown) \in Nat /\ (shown = <<>> <=> Len(shown) = 0)
        BY <2>1, LenProperties, EmptySeq
  <2>3. /\ Append(shown, g) \in Seq(Nat) /\ Len(Append(shown, g)) = Len(shown) + 1
        /\ \A i \in 1 .. Len(shown) : Append(shown, g)[i] = shown[i]
        /\ Append(shown, g)[Len(shown) + 1] = g
        BY <1>2, <2>1, AppendProperties
  <2>4. Append(shown, g) # <<>>
        BY <2>2, <2>3, EmptySeq
  <2> QED BY <1>1, <2>1, <2>2, <2>3, <2>4
<1>4. newPage \/ Complete(page) =>
        /\ page \in DOMAIN pg
        /\ Blanks(doc, Front(pg[page].off, pg[page].buf), shown'[1])
        /\ newPage => shown = content[page]
      BY <1>1, <1>2, <1>3 DEF BeginInv, PageBegins
<1>5. newPage => content'[page] = shown' /\ \A p \in DOMAIN pg : p # page => content'[p] = content[p]
  <2> SUFFICES ASSUME newPage
               PROVE  /\ content'[page] = shown'
                      /\ \A p \in DOMAIN pg : p # page => content'[p] = content[p]
      OBVIOUS
  <2>1. page \in DOMAIN content /\ content[page] = shown
        BY <1>4, BeginFacts
  <2>2. content' = [content EXCEPT ![page] = Append(shown, g)]
        BY <1>1, <2>1
  <2> QED BY <1>1, <2>1, <2>2, BeginFacts
<1>6. FilesBegin'
  <2>1. ASSUME NEW p \in DOMAIN pg, content'[p] # <<>>
        PROVE  Blanks(doc, Front(pg[p].off, pg[p].buf), content'[p][1])
    <3>1. CASE newPage /\ p = page
          BY <1>4, <1>5, <3>1
    <3>2. CASE ~(newPage /\ p = page)
      <4>1. content'[p] = content[p]
            BY <1>1, <1>5, <3>2
      <4> QED BY <2>1, <4>1 DEF BeginInv, FilesBegin
    <3> QED BY <3>1, <3>2
  <2> QED BY <1>1, <1>2, <2>1 DEF BeginInv, FilesBegin
<1>7. PageBegins'
      BY <1>1, <1>3, <1>4, <1>5 DEF PageBegins, Complete
<1> QED BY <1>6, <1>7 DEF BeginInv

\* The page is finished: its file is completed and keeps its front.
LEMMA FinishKeepsBegin ==
  ASSUME TypeOK, CompleteInv, BeginInv, NEW g, BreakPage(g) \/ EndDocument(g)
  PROVE  BeginInv'
<1>1. /\ UNCHANGED <<doc, content, page, newPage, shown>> /\ st = "draw" /\ st' = "shown"
      /\ parser' \in {parser, Taken}
      BY DEF BreakPage, EndDocument, GivenBack, PageDone, TakesGlyph, input, drawn
<1>2. parser'.off = parser.off
      BY <1>1 DEF Taken, TypeOK, ParserType
<1>3. \/ pg' = pg
      \/ newPage /\ pg' = [pg EXCEPT ![page].done = TRUE]
  <2>1. CASE call.op = "serial"
        BY <2>1 DEF BreakPage, EndDocument
  <2>2. CASE call.op # "serial"
        BY <1>1, <2>2 DEF BreakPage, EndDocument, EndPage, CompleteInv
  <2> QED BY <2>1, <2>2
<1>4. /\ DOMAIN pg' = DOMAIN pg
      /\ \A p \in DOMAIN pg : pg'[p].off = pg[p].off /\ pg'[p].buf = pg[p].buf
      /\ (newPage \/ Complete(page))' => newPage \/ Complete(page)
  <2>1. \A p \in DOMAIN pg : pg[p] \in FileType
        BY DEF TypeOK, FilesOK
  <2>2. /\ DOMAIN pg' = DOMAIN pg
        /\ \A p \in DOMAIN pg : pg'[p].off = pg[p].off /\ pg'[p].buf = pg[p].buf
    <3>1. CASE pg' = pg
          BY <3>1
    <3>2. CASE pg' = [pg EXCEPT ![page].done = TRUE]
      <4>1. DOMAIN pg' = DOMAIN pg
            BY <3>2
      <4>2. ASSUME NEW p \in DOMAIN pg PROVE pg'[p].off = pg[p].off /\ pg'[p].buf = pg[p].buf
        <5>1. pg[p] \in FileType
              BY <2>1
        <5>2. pg'[p] = IF p = page THEN [pg[p] EXCEPT !.done = TRUE] ELSE pg[p]
              BY <3>2
        <5> QED BY <5>1, <5>2 DEF FileType
      <4> QED BY <4>1, <4>2
    <3> QED BY <1>3, <3>1, <3>2
  <2>3. (newPage \/ Complete(page))' => newPage \/ Complete(page)
        BY <1>1, <1>3 DEF Complete
  <2> QED BY <2>2, <2>3
<1>5. FilesBegin'
      BY <1>1, <1>2, <1>4 DEF BeginInv, FilesBegin
<1>6. PageBegins'
      BY <1>1, <1>4 DEF BeginInv, PageBegins
<1> QED BY <1>5, <1>6 DEF BeginInv

LEMMA BeginStep == TypeOK /\ CompleteInv /\ BeginInv /\ [Next]_vars => BeginInv'
<1> SUFFICES ASSUME TypeOK, CompleteInv, BeginInv, [Next]_vars PROVE BeginInv'
    OBVIOUS
<1>1. CASE DisplayPage \/ DisplayAhead \/ AheadLoop
  <2>1. doc' = doc /\ \E p : Render(p)
        BY <1>1 DEF DisplayPage, DisplayAhead, AheadLoop, input
  <2> QED BY <2>1, RenderBegins
<1>2. CASE \/ AheadLast \/ AheadEnd \/ Displayed \/ ReturnPage \/ ReturnAll
           \/ ReturnSerialized \/ GetMaxPage
  <2>1. UNCHANGED <<doc, parser, pg, content>> /\ st' \notin {"draw", "shown"}
        BY <1>2 DEF AheadLast, AheadEnd, Displayed, ReturnPage, ReturnAll,
                    ReturnSerialized, GetMaxPage, input, files
  <2> QED BY <2>1, QuietBegin
<1>3. CASE FillBuffer
      BY <1>3, FillKeepsBegin
<1>4. ASSUME NEW g, DrawGlyph(g) \/ BreakPage(g) \/ EndDocument(g) PROVE BeginInv'
      BY <1>4, DrawKeepsBegin, FinishKeepsBegin
<1>5. ASSUME NEW m \in Modes, Start(m) PROVE BeginInv'
  <2>1. /\ UNCHANGED <<doc, pg, content, st>> /\ st = "idle" /\ parser'.off = 0
        BY <1>5 DEF Start, FreshParser, files, CompleteInv
  <2>2. Len(doc) \in Nat
        BY BeginFacts, DocFacts
  <2>3. FilesBegin' /\ PageBegins'
        BY <2>1, <2>2 DEF BeginInv, FilesBegin, PageBegins
  <2> QED BY <2>3 DEF BeginInv
<1>6. ASSUME NEW n, GetPage(n) PROVE BeginInv'
  <2>1. UNCHANGED <<doc, parser, pg, content>> /\ st' = "display"
        BY <1>6 DEF GetPage, input, files
  <2> QED BY <2>1, QuietBegin
<1>7. CASE Stop
  <2>1. UNCHANGED <<doc, parser, pg, content>> /\ st' = "idle"
        BY <1>7 DEF Stop, files
  <2> QED BY <2>1, QuietBegin
<1>8. CASE FreePage \/ UNCHANGED vars
  <2>1. UNCHANGED <<doc, parser, pg, content, st, page, newPage, shown>>
        BY <1>8 DEF FreePage, vars, input, files, frame, drawn
  <2> QED BY <2>1, QuietBegin
<1>9. ASSUME NEW n, GetSerialized(n) PROVE BeginInv'
  <2>1. /\ parser' = Restored(n) /\ UNCHANGED <<doc, pg, content>>
        /\ page' = n /\ newPage' = FALSE /\ shown' = <<>>
        BY <1>9 DEF GetSerialized, RestorePage, input, files
  <2> QED BY <2>1, RestoreBegins
<1> QED BY <1>1, <1>2, <1>3, <1>4, <1>5, <1>6, <1>7, <1>8, <1>9 DEF Next, Engine, Client

LEMMA BeginInit == Init => BeginInv
<1> SUFFICES ASSUME Init PROVE BeginInv
    OBVIOUS
<1>1. Len(doc) \in Nat
      BY EngineAssumption, LenProperties DEF Init, EngineAssumption
<1> QED BY <1>1 DEF Init, FreshParser, NoFiles, BeginInv, FilesBegin, PageBegins

LEMMA BeginsAgree == TypeOK /\ BeginInv => ReplayStarts
<1> SUFFICES ASSUME TypeOK, BeginInv,
                    st = "shown", ~newPage, shown # <<>>, Complete(page), content[page] # <<>>
             PROVE  \A k \in DOMAIN doc :
                      \/ content[page][1] <= k /\ k < shown[1]
                      \/ shown[1] <= k /\ k < content[page][1]
                      => doc[k] \in BlankChars \cup {"L"}
    BY DEF ReplayStarts
<1> DEFINE a == Front(pg[page].off, pg[page].buf)
<1>1. /\ page \in DOMAIN pg /\ DOMAIN doc = 1 .. Len(doc) /\ Len(doc) \in Nat
      BY BeginFacts, LenProperties DEF Complete
<1>2. a \in Nat /\ Blanks(doc, a, shown[1]) /\ Blanks(doc, a, content[page][1])
      BY <1>1, BeginFacts DEF BeginInv, FilesBegin, PageBegins
<1>3. shown[1] \in Nat /\ content[page][1] \in Nat
  <2>1. shown \in Seq(Nat) /\ content[page] \in Seq(Nat)
        BY <1>1 DEF TypeOK, FilesOK
  <2> QED BY <2>1, EmptySeq, LenProperties, ElementOfSeq
<1> HIDE DEF a
<1>4. \A k \in 1 .. Len(doc) : a <= k /\ k < shown[1] => doc[k] \in BlankChars \cup {"L"}
      BY <1>2 DEF Blanks
<1>5. \A k \in 1 .. Len(doc) : a <= k /\ k < content[page][1] => doc[k] \in BlankChars \cup {"L"}
      BY <1>2 DEF Blanks
<1>6. a <= shown[1] /\ a <= content[page][1]
      BY <1>2 DEF Blanks
<1> QED BY <1>1, <1>2, <1>3, <1>4, <1>5, <1>6

\* Whatever the client asks for, and whichever engine wrote the file, a page
\* shown again begins where it began, up to blanks: DocState saves offset and
\* glyphs but not resumeProcWord, and no more than blanks depends on it.
THEOREM ShownAgainFromItsBegin == Spec => []ReplayStarts
BY BeginInit, BeginStep, BeginsAgree, TypeInit, TypeStep, CompleteInit, CompleteStep, PTL
   DEF Spec
===============================================================================
