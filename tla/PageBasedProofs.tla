---------------------------- MODULE PageBasedProofs ----------------------------
(***************************************************************************)
(* Proofs about module PageBased, for every document, page geometry, batch *)
(* size and client: its types, and that the sub-pages of a page show that  *)
(* page.                                                                   *)
(*                                                                         *)
(* The argument is about what the parser covers.  Whoever reads on from a  *)
(* stored state, the earlier run or the page based one, has shown and      *)
(* buffered together what the state buffered and what the document shows   *)
(* between its offset and the parser's.  The earlier run stops reading a   *)
(* page where the page's term_off says; so both runs cover the same text.  *)
(***************************************************************************)
EXTENDS PageBased, TextLayoutProofs, SequenceTheorems, TLAPS

-----------------------------------------------------------------------------
(* Sequences of glyphs of a document d.                                     *)

\* What they show, and what a document shows behind a, up to b.
Seen(d, s)     == {g \in DOMAIN d : d[g] \notin BlankChars /\ \E i \in DOMAIN s : s[i] = g}
Ahead(d, a, b) == {k \in a + 1 .. b : d[k] \in {"c", "n"}}

NoEof(d, s)  == \A i \in DOMAIN s : s[i] # Len(d) + 1
Before(s, t) == \A i \in DOMAIN s, j \in DOMAIN t : s[i] < t[j]

\* In order, and read before offset off, or Eof.
UpTo(d, s, off) ==
  InOrder(s) /\ \A i \in DOMAIN s : s[i] <= off \/ s[i] = Len(d) + 1

\* Since the state f the glyphs of s were shown; the parser is at off and has
\* buf left.
Covers(d, f, s, buf, off) ==
  /\ f.off <= off
  /\ InOrder(s) /\ Before(s, buf) /\ \A i \in DOMAIN s : s[i] <= off
  /\ Seen(d, s) \cup Seen(d, buf) = Seen(d, f.buf) \cup Ahead(d, f.off, off)

\* The buffer ends with the last character before off, if that is one.
EndsIn(d, off, buf) ==
  off > 0 /\ d[off] \notin Tag => buf # <<>> /\ buf[Len(buf)] = off

-----------------------------------------------------------------------------
(* The inductive invariant.                                                 *)

\* Page p of the earlier run is complete; next is what the parser had left.
Ended(d, f, s, next) ==
  f.done /\ EndsIn(d, f.term, next) /\ Covers(d, f, s, next, f.term)

PageDone(p, next) == Ended(doc, pg[<<p>>], content[<<p>>], next)

BufferAfter(p) == IF <<p + 1>> \in DOMAIN pg THEN pg[<<p + 1>>].buf ELSE parser.buf

FileInv ==
  /\ \A f \in DOMAIN pg : UpTo(doc, pg[f].buf, pg[f].off)
  /\ \A p \in Nat : <<p>> \in DOMAIN pg => NoEof(doc, pg[<<p>>].buf)
  /\ UpTo(doc, parser.buf, parser.off)

\* The earlier run: the pages before mgr.num are complete, and the one that
\* is drawn covers what was read for it.
FirstRun ==
  /\ cur = -1 /\ call = NoCall /\ st \in {"idle", "draw", "shown"}
  /\ parser.held = 0
  /\ parser.buf # <<>> => EndsIn(doc, parser.off, parser.buf)
  /\ NoEof(doc, parser.buf) \/ (parser.buf = <<Eof>> /\ parser.off = Len(doc) /\ st = "draw")
  /\ mgr.max # NoMax => st # "draw" /\ parser.buf = <<>>
  /\ DOMAIN pg = {<<p>> : p \in 0 .. (IF st = "draw" THEN mgr.num ELSE mgr.num - 1)}
  /\ \A p \in 0 .. mgr.num - 1 : PageDone(p, BufferAfter(p))
  /\ st = "draw" =>
       /\ newPage /\ sub = mgr.num
       /\ Covers(doc, pg[<<sub>>], content[<<sub>>], parser.buf, parser.off)

\* Going forward through the sub-pages of page cur: they cover what was read
\* from the state the page was stored with.
ReadInv ==
  /\ parser.term = Recovered(<<cur>>).term
  /\ Covers(doc, Recovered(<<cur>>), out, parser.buf, parser.off)
  /\ NoEof(doc, parser.buf) \/ parser.off + parser.held >= parser.term
  /\ mgr.max # NoMax =>
       /\ parser.off + parser.held >= parser.term
       /\ \A i \in DOMAIN parser.buf : parser.buf[i] = Len(doc) + 1

SubRun ==
  /\ \A p \in Nat : <<p>> \in DOMAIN pg => PageDone(p, BufferOf(<<p + 1>>))
  /\ st # "idle" => cur >= 0
  /\ st = "draw" => (newPage <=> sub = mgr.num) /\ (newPage \/ back)
  /\ st = "draw" /\ newPage => <<cur, sub>> \in DOMAIN pg /\ pg[<<cur, sub>>].off <= parser.off
  /\ parser.off <= parser.term
  /\ parser.held = 1 => parser.off + 1 = parser.term /\ doc[parser.term] \notin Tag
  /\ cur >= 0 /\ ~back => ReadInv

SubPageInv ==
  /\ FileInv
  /\ mode = "paginate" => FirstRun
  /\ mode = "pb" => SubRun
  /\ mode = "dead" => st = "idle" /\ cur = -1

-----------------------------------------------------------------------------
(* Sequences.                                                               *)

LEMMA DocIs ==
  ASSUME TypeOK
  PROVE  /\ doc \in Seq(Token) /\ Len(doc) \in Nat /\ Len(doc) > 0 /\ DOMAIN doc = 1 .. Len(doc)
         /\ doc[Len(doc)] \in Tag /\ Eof = Len(doc) + 1
         /\ \A i \in 1 .. Len(doc) : doc[i] \in Token
<1>1. doc \in Seq(Token) /\ doc # <<>> /\ doc[Len(doc)] \in Tag
      BY PageBasedAssumption DEF PageBasedAssumption, TypeOK
<1>2. Len(doc) \in Nat \ {0} /\ DOMAIN doc = 1 .. Len(doc)
      BY <1>1, EmptySeq, LenProperties
<1>3. Eof = Len(doc) + 1 /\ \A i \in 1 .. Len(doc) : doc[i] \in Token
      BY <1>1, TokenFacts DEF Eof
<1> QED BY <1>1, <1>2, <1>3

LEMMA VisibleIsSeen == ASSUME NEW s PROVE Visible(s) = Seen(doc, s)
BY DEF Visible, Seen

LEMMA EmptyText ==
  ASSUME NEW d
  PROVE  /\ InOrder(<<>>) /\ NoEof(d, <<>>) /\ Seen(d, <<>>) = {}
         /\ \A s : Before(<<>>, s) /\ Before(s, <<>>)
         /\ \A off : UpTo(d, <<>>, off)
<1>1. DOMAIN <<>> = {}
      OBVIOUS
<1> QED BY <1>1 DEF InOrder, NoEof, Seen, Before, UpTo

LEMMA AheadIs ==
  ASSUME NEW d, NEW a \in Int, NEW b \in Int, NEW c \in Int, a <= b, b <= c
  PROVE  /\ Ahead(d, a, a) = {}
         /\ Ahead(d, a, b) \cup Ahead(d, b, c) = Ahead(d, a, c)
BY DEF Ahead

\* The first glyph of a buffer, and the others.
LEMMA TakenFacts ==
  ASSUME NEW S, NEW buf \in Seq(S), buf # <<>>
  PROVE  /\ Len(buf) \in Nat /\ Len(buf) > 0 /\ Head(buf) = buf[1] /\ Head(buf) \in S
         /\ Tail(buf) \in Seq(S) /\ DOMAIN Tail(buf) = 1 .. Len(buf) - 1
         /\ Len(Tail(buf)) = Len(buf) - 1
         /\ \A i \in 1 .. Len(buf) - 1 : Tail(buf)[i] = buf[i + 1]
         /\ DOMAIN buf = 1 .. Len(buf)
<1>1. /\ Len(buf) \in Nat /\ Len(buf) > 0 /\ DOMAIN buf = 1 .. Len(buf)
      BY EmptySeq, LenProperties
<1>2. /\ Head(buf) = buf[1] /\ Head(buf) \in S
      /\ Tail(buf) \in Seq(S) /\ Len(Tail(buf)) = Len(buf) - 1
      /\ \A i \in 1 .. Len(Tail(buf)) : Tail(buf)[i] = buf[i + 1]
      BY HeadTailProperties
<1>3. DOMAIN Tail(buf) = 1 .. Len(Tail(buf))
      BY <1>2, LenProperties
<1> QED BY <1>1, <1>2, <1>3

\* Taking the first glyph off an ordered buffer.
LEMMA TakeInOrder ==
  ASSUME NEW d \in Seq(Token), NEW off \in Int, NEW buf \in Seq(1 .. Len(d) + 1), buf # <<>>,
         UpTo(d, buf, off)
  PROVE  /\ UpTo(d, Tail(buf), off)
         /\ \A i \in DOMAIN Tail(buf) : Head(buf) < Tail(buf)[i]
         /\ Head(buf) = Len(d) + 1 => Tail(buf) = <<>>
         /\ Head(buf) # Len(d) + 1 => Head(buf) <= off
         /\ NoEof(d, buf) => NoEof(d, Tail(buf)) /\ Head(buf) # Len(d) + 1
         /\ Head(buf) # Len(d) + 1 /\ NoEof(d, Tail(buf)) => NoEof(d, buf)
<1> DEFINE t == Tail(buf)
           n == Len(buf)
<1>1. /\ n \in Nat /\ n > 0 /\ Head(buf) = buf[1] /\ Head(buf) \in 1 .. Len(d) + 1
      /\ t \in Seq(1 .. Len(d) + 1) /\ DOMAIN t = 1 .. n - 1 /\ DOMAIN buf = 1 .. n
      /\ Len(t) = n - 1 /\ \A i \in 1 .. n - 1 : t[i] = buf[i + 1]
      BY TakenFacts
<1>2. Len(d) \in Nat
      BY LenProperties
<1> HIDE DEF t, n
<1>3. ASSUME NEW i \in 1 .. n - 1 PROVE i + 1 \in 1 .. n /\ t[i] = buf[i + 1] /\ 1 < i + 1
      BY <1>1
<1>4. InOrder(t)
  <2>1. ASSUME NEW i \in 1 .. n - 1, NEW j \in 1 .. n - 1, i < j PROVE t[i] < t[j]
    <3>1. i + 1 < j + 1
          BY <1>1, <2>1
    <3> QED BY <1>1, <1>3, <3>1 DEF UpTo, InOrder
  <2> QED BY <1>1, <2>1 DEF InOrder
<1>5. UpTo(d, t, off)
      BY <1>1, <1>3, <1>4 DEF UpTo
<1>3a. 1 \in DOMAIN buf
      BY <1>1
<1>6. ASSUME NEW i \in DOMAIN t PROVE Head(buf) < t[i]
  <2>1. i + 1 \in DOMAIN buf /\ 1 < i + 1 /\ t[i] = buf[i + 1]
        BY <1>1, <1>3
  <2>2. buf[1] < buf[i + 1]
        BY <1>3a, <2>1 DEF UpTo, InOrder
  <2> QED BY <1>1, <2>1, <2>2
<1>7. Head(buf) = Len(d) + 1 => t = <<>>
  <2> SUFFICES ASSUME Head(buf) = Len(d) + 1, t # <<>> PROVE FALSE
      OBVIOUS
  <2>1. 1 \in DOMAIN t /\ t[1] \in 1 .. Len(d) + 1
        BY <1>1, EmptySeq, ElementOfSeq
  <2> QED BY <1>2, <1>6, <2>1
<1>8. Head(buf) # Len(d) + 1 => Head(buf) <= off
      BY <1>1, <1>3a DEF UpTo
<1>9. ASSUME NoEof(d, buf) PROVE NoEof(d, t) /\ Head(buf) # Len(d) + 1
  <2>1. Head(buf) # Len(d) + 1
        BY <1>1, <1>3a, <1>9 DEF NoEof
  <2>2. ASSUME NEW i \in DOMAIN t PROVE t[i] # Len(d) + 1
        BY <1>1, <1>3, <1>9 DEF NoEof
  <2> QED BY <2>1, <2>2 DEF NoEof
<1>10. ASSUME Head(buf) # Len(d) + 1, NoEof(d, t), NEW i \in 1 .. n PROVE buf[i] # Len(d) + 1
  <2>1. CASE i = 1
        BY <1>1, <1>10, <2>1
  <2>2. CASE i # 1
    <3>1. i - 1 \in 1 .. n - 1 /\ (i - 1) + 1 = i
          BY <1>1, <2>2
    <3> QED BY <1>1, <1>3, <1>10, <3>1 DEF NoEof
  <2> QED BY <2>1, <2>2
<1> QED BY <1>1, <1>5, <1>6, <1>7, <1>8, <1>9, <1>10 DEF NoEof, t

\* It moves from what is left to what was shown.
LEMMA TakeSeen ==
  ASSUME NEW d, NEW buf \in Seq(1 .. Len(d) + 1), NEW s \in Seq(DOMAIN d),
         buf # <<>>, Head(buf) \in DOMAIN d
  PROVE  Seen(d, Append(s, Head(buf))) \cup Seen(d, Tail(buf)) = Seen(d, s) \cup Seen(d, buf)
<1> DEFINE t == Tail(buf)
           n == Len(buf)
           g == Head(buf)
           a == Append(s, g)
           m == Len(s)
<1>1. /\ n \in Nat /\ n > 0 /\ g = buf[1]
      /\ DOMAIN t = 1 .. n - 1 /\ DOMAIN buf = 1 .. n
      /\ \A i \in 1 .. n - 1 : t[i] = buf[i + 1]
      BY TakenFacts
<1>2. /\ m \in Nat /\ DOMAIN s = 1 .. m /\ DOMAIN a = 1 .. m + 1
      /\ \A i \in 1 .. m : a[i] = s[i]
      /\ a[m + 1] = g
      BY LenProperties, AppendProperties
<1> HIDE DEF t, n, g, a, m
<1>3. ASSUME NEW x
      PROVE  (\E i \in DOMAIN buf : buf[i] = x) <=> (x = g \/ \E i \in DOMAIN t : t[i] = x)
  <2>1. ASSUME NEW i \in 1 .. n, buf[i] = x, x # g PROVE \E j \in 1 .. n - 1 : t[j] = x
    <3>1. i - 1 \in 1 .. n - 1 /\ (i - 1) + 1 = i
          BY <1>1, <2>1
    <3> QED BY <1>1, <2>1, <3>1
  <2>2. ASSUME NEW i \in 1 .. n - 1 PROVE i + 1 \in 1 .. n
        BY <1>1
  <2>3. 1 \in 1 .. n
        BY <1>1
  <2> QED BY <1>1, <2>1, <2>2, <2>3
<1>4. ASSUME NEW x
      PROVE  (\E i \in DOMAIN a : a[i] = x) <=> (x = g \/ \E i \in DOMAIN s : s[i] = x)
  <2>1. ASSUME NEW i \in 1 .. m + 1, a[i] = x, x # g PROVE \E j \in 1 .. m : s[j] = x
    <3>1. i \in 1 .. m
          BY <1>2, <2>1
    <3> QED BY <1>2, <2>1, <3>1
  <2>2. ASSUME NEW i \in 1 .. m PROVE i \in 1 .. m + 1
        BY <1>2
  <2>3. m + 1 \in 1 .. m + 1
        BY <1>2
  <2> QED BY <1>2, <2>1, <2>2, <2>3
<1>5. Seen(d, a) \cup Seen(d, t) = Seen(d, s) \cup Seen(d, buf)
      BY <1>3, <1>4 DEF Seen
<1> QED BY <1>5 DEF a, g, t

-----------------------------------------------------------------------------
(* Covering.                                                                *)

\* A state covers itself.
LEMMA CoversBegin ==
  ASSUME NEW d \in Seq(Token), NEW f, f.off \in Int PROVE Covers(d, f, <<>>, f.buf, f.off)
<1>1. Ahead(d, f.off, f.off) = {}
      BY AheadIs
<1> QED BY <1>1, EmptyText DEF Covers

\* A glyph is shown.
LEMMA CoversTake ==
  ASSUME NEW d \in Seq(Token), NEW f, NEW s \in Seq(DOMAIN d), NEW off \in Int,
         NEW buf \in Seq(1 .. Len(d) + 1), buf # <<>>, UpTo(d, buf, off),
         Head(buf) # Len(d) + 1, Covers(d, f, s, buf, off)
  PROVE  /\ Append(s, Head(buf)) \in Seq(DOMAIN d)
         /\ Covers(d, f, Append(s, Head(buf)), Tail(buf), off)
<1> DEFINE t == Tail(buf)
           g == Head(buf)
           a == Append(s, g)
           m == Len(s)
           n == Len(buf)
<1>1. /\ g = buf[1] /\ g \in 1 .. Len(d) + 1 /\ 1 \in DOMAIN buf
      /\ t \in Seq(1 .. Len(d) + 1) /\ DOMAIN t = 1 .. n - 1 /\ DOMAIN buf = 1 .. n
      /\ n \in Nat /\ \A i \in 1 .. n - 1 : t[i] = buf[i + 1]
      BY TakenFacts
<1>2. Len(d) \in Nat /\ DOMAIN d = 1 .. Len(d)
      BY LenProperties
<1>3. g \in DOMAIN d
      BY <1>1, <1>2
<1>4. /\ m \in Nat /\ DOMAIN s = 1 .. m /\ a \in Seq(DOMAIN d) /\ DOMAIN a = 1 .. m + 1
      /\ \A i \in 1 .. m : a[i] = s[i]
      /\ a[m + 1] = g
      BY <1>3, LenProperties, AppendProperties
<1>5. (\A i \in DOMAIN t : g < t[i]) /\ g <= off
      BY TakeInOrder
<1>6. Seen(d, a) \cup Seen(d, t) = Seen(d, s) \cup Seen(d, buf)
      BY <1>3, TakeSeen
<1>7. \A i \in 1 .. m : s[i] < g /\ s[i] <= off
      BY <1>1, <1>4 DEF Covers, Before
<1> HIDE DEF a, t, g, m, n
<1>8. ASSUME NEW i \in 1 .. m + 1
      PROVE  i \in 1 .. m \/ (i = m + 1 /\ a[i] = g)
      BY <1>4
<1>9. InOrder(a)
  <2>1. ASSUME NEW i \in 1 .. m + 1, NEW j \in 1 .. m + 1, i < j PROVE a[i] < a[j]
    <3>1. i \in 1 .. m
          BY <1>4, <2>1
    <3>2. CASE j \in 1 .. m
          BY <1>4, <2>1, <3>1, <3>2 DEF Covers, InOrder
    <3>3. CASE j = m + 1
          BY <1>4, <1>7, <3>1, <3>3
    <3> QED BY <1>8, <3>2, <3>3
  <2> QED BY <1>4, <2>1 DEF InOrder
<1>10. Before(a, t)
  <2>1. ASSUME NEW i \in 1 .. m + 1, NEW j \in DOMAIN t PROVE a[i] < t[j]
    <3>1. CASE i \in 1 .. m
      <4>0. j \in 1 .. n - 1
            BY <1>1
      <4>0b. n \in Nat
            BY <1>1
      <4>0a. j + 1 \in 1 .. n
            BY <4>0, <4>0b
      <4>1. j + 1 \in DOMAIN buf /\ t[j] = buf[j + 1]
            BY <1>1, <4>0, <4>0a
      <4> QED BY <1>4, <3>1, <4>1 DEF Covers, Before
    <3>2. CASE i = m + 1
          BY <1>4, <1>5, <3>2
    <3> QED BY <1>8, <3>1, <3>2
  <2> QED BY <1>4, <2>1 DEF Before
<1>11. \A i \in DOMAIN a : a[i] <= off
      BY <1>4, <1>5, <1>7, <1>8
<1>12. Covers(d, f, a, t, off)
      BY <1>6, <1>9, <1>10, <1>11 DEF Covers
<1> QED BY <1>4, <1>12 DEF a, t, g

\* A buffer that is empty is filled again.
LEMMA CoversFill ==
  ASSUME NEW d, NEW f, f.off \in Int, NEW s, NEW off \in Int, NEW off2 \in Int, off <= off2,
         Covers(d, f, s, <<>>, off), NEW buf, \A i \in DOMAIN buf : off < buf[i],
         NEW S, s \in Seq(S), S \subseteq Int, \A i \in DOMAIN buf : buf[i] \in Int,
         Seen(d, buf) = Ahead(d, off, off2)
  PROVE  Covers(d, f, s, buf, off2)
<1>1. /\ f.off <= off /\ InOrder(s) /\ \A i \in DOMAIN s : s[i] <= off
      /\ Seen(d, s) = Seen(d, f.buf) \cup Ahead(d, f.off, off)
      BY EmptyText DEF Covers
<1>2. \A i \in DOMAIN s : s[i] \in Int
      BY LenProperties, ElementOfSeq
<1>3. Before(s, buf) /\ \A i \in DOMAIN s : s[i] <= off2
      BY <1>1, <1>2 DEF Before
<1>4. Ahead(d, f.off, off) \cup Ahead(d, off, off2) = Ahead(d, f.off, off2)
      BY <1>1, AheadIs
<1>5. f.off <= off2
      BY <1>1
<1> QED BY <1>1, <1>3, <1>4, <1>5 DEF Covers

-----------------------------------------------------------------------------
(* What the parser reads of a document d whose first e tokens may be read.  *)

LEMMA PrefixFacts ==
  ASSUME NEW d \in Seq(Token), NEW e \in 0 .. Len(d)
  PROVE  /\ SubSeq(d, 1, e) \in Seq(Token) /\ Len(SubSeq(d, 1, e)) = e /\ e \in Nat
         /\ Len(d) \in Nat /\ DOMAIN d = 1 .. Len(d)
         /\ \A i \in 1 .. e : SubSeq(d, 1, e)[i] = d[i]
         /\ \A i \in 1 .. Len(d) : d[i] \in Token
<1>1. Len(d) \in Nat /\ DOMAIN d = 1 .. Len(d)
      BY LenProperties
<1>2. e \in Nat /\ e <= Len(d) /\ \A i \in 1 .. e : i \in 1 .. Len(d)
      BY <1>1
<1>3. /\ SubSeq(d, 1, e) \in Seq(Token) /\ Len(SubSeq(d, 1, e)) = e
      /\ \A i \in 1 .. e : SubSeq(d, 1, e)[i] = d[i]
      BY <1>1, <1>2
<1>4. \A i \in 1 .. Len(d) : d[i] \in Token
      BY ElementOfSeq
<1> QED BY <1>1, <1>2, <1>3, <1>4

\* A batch read from there, its glyphs as places of d.
BatchIn(d, e, o, b) ==
  /\ Len(b.glyphs) \in Nat /\ DOMAIN b.glyphs = 1 .. Len(b.glyphs) /\ b.off \in o .. e
  /\ b.resume \in BOOLEAN
  /\ \A i, j \in 1 .. Len(b.glyphs) : i < j => b.glyphs[i] < b.glyphs[j]
  /\ \A i \in 1 .. Len(b.glyphs) :
       /\ b.glyphs[i] \in Nat /\ o < b.glyphs[i]
       /\ \/ b.glyphs[i] <= b.off /\ d[b.glyphs[i]] # "L"
          \/ b.glyphs[i] = e + 1 /\ b.off = e
  /\ \A k \in o + 1 .. b.off :
       d[k] \in {"c", "n"} => \E i \in 1 .. Len(b.glyphs) : b.glyphs[i] = k
  /\ b.glyphs # <<>> => b.glyphs[Len(b.glyphs)] \in {b.off, e + 1}

LEMMA PrefixBatch ==
  ASSUME NEW d \in Seq(Token), NEW e \in 0 .. Len(d), NEW o \in 0 .. e, NEW r \in BOOLEAN
  PROVE  LET b == Fill(SubSeq(d, 1, e), o, r)
         IN  BatchIn(d, e, o, b) /\ b.glyphs \in Seq(1 .. e + 1)
<1> DEFINE p == SubSeq(d, 1, e)
           b == Fill(p, o, r)
<1>1. /\ p \in Seq(Token) /\ Len(p) = e /\ e \in Nat /\ \A i \in 1 .. e : p[i] = d[i]
      BY PrefixFacts
<1> HIDE DEF p
<1>2. WordMax \in Nat /\ o \in 0 .. Len(p)
      BY <1>1, PageBasedAssumption DEF PageBasedAssumption
<1>3. BatchOf(p, o, b)
      BY <1>1, <1>2, FillBatch
<1> HIDE DEF b
<1> DEFINE s == b.glyphs
           n == Len(s)
<1>4. s \in Seq(1 .. e + 1) /\ b.off \in o .. e /\ b.resume \in BOOLEAN
      BY <1>1, <1>3 DEF BatchOf
<1>5. n \in Nat /\ DOMAIN s = 1 .. n /\ \A i \in 1 .. n : s[i] \in 1 .. e + 1
      BY <1>4, LenProperties, ElementOfSeq
<1>6. ASSUME NEW i \in 1 .. n
      PROVE  /\ s[i] \in Nat /\ o < s[i]
             /\ \/ s[i] <= b.off /\ d[s[i]] # "L"
                \/ s[i] = e + 1 /\ b.off = e
  <2>1. /\ o < s[i]
        /\ \/ s[i] <= b.off /\ p[s[i]] # "L"
           \/ s[i] = e + 1 /\ b.off = e
        BY <1>1, <1>3 DEF BatchOf
  <2>2. s[i] \in 1 .. e + 1
        BY <1>5
  <2>3. s[i] <= b.off => p[s[i]] = d[s[i]]
    <3>1. b.off \in Int /\ b.off <= e /\ s[i] \in Int /\ s[i] >= 1
          BY <1>1, <1>4, <2>2
    <3>2. s[i] <= b.off => s[i] \in 1 .. e
          BY <1>1, <3>1
    <3> QED BY <1>1, <3>2
  <2> QED BY <1>1, <2>1, <2>2, <2>3
<1>7. ASSUME NEW k \in o + 1 .. b.off, d[k] \in {"c", "n"}
      PROVE  \E i \in 1 .. n : s[i] = k
  <2>1. k \in 1 .. e
        BY <1>1, <1>4
  <2>2. p[k] \in {"c", "n"}
        BY <1>1, <1>7, <2>1
  <2> QED BY <1>3, <2>2 DEF BatchOf
<1>8. /\ \A i, j \in 1 .. n : i < j => s[i] < s[j]
      /\ s # <<>> => s[n] \in {b.off, e + 1}
      BY <1>1, <1>3 DEF BatchOf
<1>9. BatchIn(d, e, o, b)
      BY <1>4, <1>5, <1>6, <1>7, <1>8 DEF BatchIn
<1> QED BY <1>4, <1>9 DEF b, p

\* What FillBuffer makes of the glyphs of a batch.
Whole(d, e, s) == [i \in DOMAIN s |-> IF s[i] > e THEN Len(d) + 1 ELSE s[i]]
Short(d, s, m) == SubSeq(s, 1, m - 1) \o <<Len(d) + 1>>

\* The batch as it stands, Eof being the document's.
LEMMA WholeBatch ==
  ASSUME NEW d \in Seq(Token), NEW e \in 0 .. Len(d), NEW o \in 0 .. e, NEW b,
         BatchIn(d, e, o, b)
  PROVE  /\ Whole(d, e, b.glyphs) \in Seq(1 .. Len(d) + 1) /\ UpTo(d, Whole(d, e, b.glyphs), b.off)
         /\ \A i \in DOMAIN Whole(d, e, b.glyphs) : o < Whole(d, e, b.glyphs)[i]
         /\ Seen(d, Whole(d, e, b.glyphs)) = Ahead(d, o, b.off)
         /\ NoEof(d, Whole(d, e, b.glyphs)) \/ b.off = e
         /\ Whole(d, e, b.glyphs) # <<>> => Whole(d, e, b.glyphs)[Len(Whole(d, e, b.glyphs))] \in {b.off, Len(d) + 1}
<1> DEFINE s == b.glyphs
           n == Len(s)
           N == Len(d)
           w == [i \in DOMAIN s |-> IF s[i] > e THEN N + 1 ELSE s[i]]
<1>0. Whole(d, e, b.glyphs) = w
      BY DEF Whole
<1>1. N \in Nat /\ DOMAIN d = 1 .. N /\ e \in Nat /\ e <= N /\ \A i \in 1 .. N : d[i] \in Token
      BY PrefixFacts
<1>2. /\ n \in Nat /\ DOMAIN s = 1 .. n /\ b.off \in o .. e
      /\ \A i, j \in 1 .. n : i < j => s[i] < s[j]
      /\ \A i \in 1 .. n :
           /\ s[i] \in Nat /\ o < s[i]
           /\ \/ s[i] <= b.off /\ d[s[i]] # "L"
              \/ s[i] = e + 1 /\ b.off = e
      BY DEF BatchIn
<1>3. ASSUME NEW i \in 1 .. n
      PROVE  /\ o < w[i] /\ w[i] \in 1 .. N + 1
             /\ \/ w[i] = s[i] /\ s[i] <= b.off /\ d[s[i]] # "L"
                \/ w[i] = N + 1 /\ s[i] = e + 1 /\ b.off = e
  <2>1. w[i] = IF s[i] > e THEN N + 1 ELSE s[i]
        BY <1>2
  <2> HIDE DEF w, s, n, N
  <2>2. CASE s[i] <= b.off /\ d[s[i]] # "L"
        BY <1>1, <1>2, <2>1, <2>2
  <2>3. CASE s[i] = e + 1 /\ b.off = e
        BY <1>1, <1>2, <2>1, <2>3
  <2> QED BY <1>2, <2>2, <2>3
<1>4. DOMAIN w = 1 .. n /\ w = [i \in 1 .. n |-> w[i]]
      BY <1>2
<1>5. w \in Seq(1 .. N + 1) /\ Len(w) = n
  <2>1. w \in [1 .. n -> 1 .. N + 1]
        BY <1>3, <1>4
  <2> HIDE DEF w
  <2>2. w \in Seq(1 .. N + 1)
        BY <1>2, <2>1, SeqDef
  <2>3. DOMAIN w = 1 .. Len(w) /\ Len(w) \in Nat
        BY <2>2, LenProperties
  <2> QED BY <1>2, <1>4, <2>2, <2>3
<1> HIDE DEF w, s, n, N
<1>6. ASSUME NEW i \in 1 .. n, NEW j \in 1 .. n, i < j PROVE w[i] < w[j]
  <2>1. s[i] < s[j] /\ s[i] \in Nat /\ s[j] \in Nat
        BY <1>2, <1>6
  <2>2. s[i] <= b.off
    <3>1. s[j] <= b.off \/ (s[j] = e + 1 /\ b.off = e)
          BY <1>2
    <3>2. b.off \in Int /\ e \in Int
          BY <1>1, <1>2
    <3> QED BY <2>1, <3>1, <3>2
  <2>3. s[i] <= N /\ w[i] = s[i]
        BY <1>1, <1>2, <1>3, <2>1, <2>2
  <2>4. w[j] = s[j] \/ w[j] = N + 1
        BY <1>3
  <2> QED BY <1>1, <2>1, <2>3, <2>4
<1>7. UpTo(d, w, b.off)
      BY <1>3, <1>4, <1>6 DEF UpTo, InOrder, N
<1>8. Seen(d, w) = Ahead(d, o, b.off)
  <2>1. ASSUME NEW g \in Seen(d, w) PROVE g \in Ahead(d, o, b.off)
    <3>1. PICK i \in 1 .. n : w[i] = g
          BY <1>4, <2>1 DEF Seen
    <3>2. g \in 1 .. N /\ d[g] \notin BlankChars /\ d[g] \in Token
          BY <1>1, <2>1 DEF Seen
    <3>3. g <= b.off /\ d[g] # "L" /\ o < g
          BY <1>1, <1>3, <3>1, <3>2
    <3>4. g \in o + 1 .. b.off /\ d[g] \in {"c", "n"}
          BY <1>2, <3>2, <3>3 DEF Token, BlankChars
    <3> QED BY <3>4 DEF Ahead
  <2>2. ASSUME NEW g \in Ahead(d, o, b.off) PROVE g \in Seen(d, w)
    <3>1. g \in o + 1 .. b.off /\ d[g] \in {"c", "n"}
          BY <2>2 DEF Ahead
    <3>2. PICK i \in 1 .. n : s[i] = g
          BY <3>1 DEF BatchIn, s, n
    <3>3. g <= e /\ g \in 1 .. N
          BY <1>1, <1>2, <3>1
    <3>4. w[i] = g
          BY <1>1, <1>3, <3>2, <3>3
    <3> QED BY <1>1, <1>4, <3>1, <3>3, <3>4 DEF Seen, BlankChars
  <2> QED BY <2>1, <2>2
<1>9. NoEof(d, w) \/ b.off = e
      BY <1>1, <1>2, <1>3, <1>4 DEF NoEof, N
<1>10. w # <<>> => w[Len(w)] \in {b.off, N + 1}
  <2> SUFFICES ASSUME w # <<>> PROVE w[n] \in {b.off, N + 1}
      BY <1>5
  <2>1. n \in 1 .. n /\ s # <<>>
        BY <1>2, <1>4, <1>5, EmptySeq
  <2>2. s[n] \in {b.off, e + 1}
        BY <2>1 DEF BatchIn, s, n
  <2>3. \/ w[n] = s[n] /\ s[n] <= b.off
        \/ w[n] = N + 1
        BY <1>3, <2>1
  <2> QED BY <1>1, <1>2, <2>2, <2>3
<1> QED BY <1>0, <1>3, <1>4, <1>5, <1>7, <1>8, <1>9, <1>10 DEF N

\* The batch when the last of its words is lost: what is before that, and Eof.
LEMMA ShortBatch ==
  ASSUME NEW d \in Seq(Token), NEW e \in 0 .. Len(d), NEW o \in 0 .. e, NEW b,
         BatchIn(d, e, o, b), b.glyphs \in Seq(1 .. e + 1),
         NEW m \in DOMAIN b.glyphs, b.glyphs[m] = e, o < e
  PROVE  /\ Short(d, b.glyphs, m) \in Seq(1 .. Len(d) + 1) /\ UpTo(d, Short(d, b.glyphs, m), e - 1)
         /\ \A i \in DOMAIN Short(d, b.glyphs, m) : o < Short(d, b.glyphs, m)[i]
         /\ Seen(d, Short(d, b.glyphs, m)) = Ahead(d, o, e - 1)
<1> DEFINE s == b.glyphs
           n == Len(s)
           N == Len(d)
           p == SubSeq(s, 1, m - 1)
           q == <<N + 1>>
           w == p \o q
           T == 1 .. N + 1
<1>0. Short(d, b.glyphs, m) = w
      BY DEF Short
<1>1. N \in Nat /\ DOMAIN d = 1 .. N /\ e \in Nat /\ e <= N /\ \A i \in 1 .. N : d[i] \in Token
      BY PrefixFacts
<1>2. /\ n \in Nat /\ DOMAIN s = 1 .. n /\ b.off \in o .. e /\ m \in 1 .. n /\ s[m] = e
      /\ \A i, j \in 1 .. n : i < j => s[i] < s[j]
      /\ \A i \in 1 .. n :
           /\ s[i] \in Nat /\ o < s[i]
           /\ \/ s[i] <= b.off /\ d[s[i]] # "L"
              \/ s[i] = e + 1 /\ b.off = e
      BY DEF BatchIn
<1>2a. n \in Nat /\ m \in 1 .. n /\ m \in Int /\ m >= 1
      BY <1>2
<1>3. b.off = e
      BY <1>1, <1>2
<1>4. ASSUME NEW i \in 1 .. m - 1 PROVE i \in 1 .. n /\ s[i] < e /\ s[i] \in T
  <2> HIDE DEF n
  <2>1. i \in 1 .. n /\ i < m
        BY <1>2a
  <2>2. s[i] < s[m] /\ s[i] \in Nat /\ o < s[i]
        BY <1>2, <2>1
  <2>3. s[m] = e /\ o >= 0 /\ o \in Int
        BY <1>1, <1>2
  <2> HIDE DEF s
  <2> QED BY <1>1, <2>1, <2>2, <2>3
<1>5. p \in Seq(T) /\ Len(p) = m - 1 /\ \A i \in 1 .. m - 1 : p[i] = s[i]
  <2>1. m \in Int /\ 1 \in Int /\ m - 1 \in Int /\ m - 1 >= 0
        BY <1>2a
  <2>2. /\ p \in Seq(T) /\ Len(p) = IF 1 <= m - 1 THEN (m - 1) - 1 + 1 ELSE 0
        /\ \A i \in 1 .. (m - 1) - 1 + 1 : p[i] = s[1 + i - 1]
    <3>1. \A i \in 1 .. m - 1 : s[i] \in T
          BY <1>4
    <3> HIDE DEF s, T
    <3> QED BY ONLY <2>1, <3>1, SubSeqProperties DEF p
  <2> HIDE DEF p, s
  <2>3. (m - 1) - 1 + 1 = m - 1
        BY <2>1
  <2>4. ASSUME NEW i \in 1 .. m - 1 PROVE 1 + i - 1 = i
        BY <2>1
  <2>5. \A i \in 1 .. m - 1 : p[i] = s[i]
        BY <2>2, <2>3, <2>4
  <2>6. Len(p) = m - 1
        BY <2>1, <2>2, <2>3
  <2> QED BY <2>2, <2>5, <2>6
<1>6. q \in Seq(T) /\ Len(q) = 1 /\ q[1] = N + 1
      BY <1>1
<1>7. m - 1 \in Nat /\ (m - 1) + 1 = m
      BY <1>2
<1> HIDE DEF p, q
<1>8. w \in Seq(T) /\ Len(w) = m /\ \A i \in 1 .. m : w[i] = IF i <= m - 1 THEN p[i] ELSE q[i - (m - 1)]
  <2>1. /\ w \in Seq(T) /\ Len(w) = Len(p) + Len(q)
        /\ \A i \in 1 .. Len(p) + Len(q) : w[i] = IF i <= Len(p) THEN p[i] ELSE q[i - Len(p)]
        BY <1>5, <1>6, ConcatProperties
  <2>2. Len(p) = m - 1 /\ Len(p) + Len(q) = m
        BY <1>5, <1>6, <1>7
  <2> HIDE DEF w
  <2> QED BY <2>1, <2>2
<1> HIDE DEF w, s, n, N, T
<1>9. ASSUME NEW i \in 1 .. m
      PROVE  \/ i \in 1 .. m - 1 /\ w[i] = s[i]
             \/ i = m /\ w[i] = N + 1
  <2>1. CASE i <= m - 1
    <3>1. i \in 1 .. m - 1
          BY <1>7, <2>1
    <3> QED BY <1>5, <1>8, <2>1, <3>1
  <2>2. CASE ~(i <= m - 1)
    <3>1. i = m /\ i - (m - 1) = 1
          BY <1>2, <1>7, <2>2
    <3> QED BY <1>6, <1>8, <2>2, <3>1
  <2> QED BY <2>1, <2>2
<1>10. DOMAIN w = 1 .. m
      BY <1>8, LenProperties
<1>11. ASSUME NEW i \in 1 .. m, NEW j \in 1 .. m, i < j PROVE w[i] < w[j]
  <2>0. i # m
        BY <1>2a, <1>11
  <2>1. i \in 1 .. m - 1 /\ w[i] = s[i]
        BY <1>9, <2>0
  <2>2. CASE j \in 1 .. m - 1 /\ w[j] = s[j]
        BY <1>2, <1>4, <1>11, <2>1, <2>2
  <2>3. CASE w[j] = N + 1
    <3>1. s[i] < e /\ s[i] \in Nat
          BY <1>2, <1>4, <2>1
    <3> QED BY <1>1, <2>1, <2>3, <3>1
  <2> QED BY <1>9, <2>2, <2>3
<1>12. ASSUME NEW i \in 1 .. m PROVE (w[i] <= e - 1 \/ w[i] = N + 1) /\ o < w[i]
  <2>1. CASE i \in 1 .. m - 1 /\ w[i] = s[i]
    <3>1. s[i] < e /\ s[i] \in Nat /\ o < s[i]
          BY <1>2, <1>4, <2>1
    <3> QED BY <1>1, <2>1, <3>1
  <2>2. CASE w[i] = N + 1
        BY <1>1, <2>2
  <2> QED BY <1>9, <2>1, <2>2
<1>13. UpTo(d, w, e - 1)
      BY <1>10, <1>11, <1>12 DEF UpTo, InOrder, N
<1>14. ASSUME NEW g \in Seen(d, w) PROVE g \in Ahead(d, o, e - 1)
  <2>1. PICK i \in 1 .. m : w[i] = g
        BY <1>10, <1>14 DEF Seen
  <2>2. g \in 1 .. N /\ d[g] \notin BlankChars /\ d[g] \in Token
        BY <1>1, <1>14 DEF Seen
  <2>3. i \in 1 .. m - 1 /\ w[i] = s[i]
    <3>1. w[i] # N + 1
          BY <1>1, <2>1, <2>2
    <3> QED BY <1>9, <2>1, <3>1
  <2>4. s[i] < e /\ i \in 1 .. n
        BY <1>4, <2>3
  <2>5. d[g] # "L" /\ o < g /\ g < e
    <3>1. s[i] = g
          BY <2>1, <2>3
    <3>2. s[i] \in Nat /\ o < s[i] /\ ((s[i] <= b.off /\ d[s[i]] # "L") \/ s[i] = e + 1)
          BY <1>2, <2>4
    <3>3. s[i] # e + 1
          BY <1>1, <2>4, <3>2
    <3> QED BY <2>4, <3>1, <3>2, <3>3
  <2>6. g \in o + 1 .. e - 1 /\ d[g] \in {"c", "n"}
        BY <1>1, <2>2, <2>5 DEF Token, BlankChars
  <2> QED BY <2>6 DEF Ahead
<1>15. ASSUME NEW g \in Ahead(d, o, e - 1) PROVE g \in Seen(d, w)
  <2>1. g \in o + 1 .. e - 1 /\ d[g] \in {"c", "n"} /\ g \in o + 1 .. b.off
        BY <1>1, <1>3, <1>15 DEF Ahead
  <2>2. PICK i \in 1 .. n : s[i] = g
        BY <2>1 DEF BatchIn, s, n
  <2>3. g < e /\ g \in 1 .. N
        BY <1>1, <2>1
  <2>4. i \in 1 .. m - 1
    <3>1. m < i => s[m] < s[i]
          BY <1>2
    <3>1a. s[m] = e /\ s[i] = g
          BY <1>2, <2>2
    <3>1b. g < e /\ ~(e < g) /\ g # e
          BY <1>1, <2>3
    <3>2. s[m] = e /\ s[i] < e /\ ~(e < s[i]) /\ s[i] # e
          BY <3>1a, <3>1b
    <3>3. ~(m < i) /\ i # m
          BY <3>1, <3>2
    <3> QED BY <1>2a, <3>3
  <2>5. i \in 1 .. m /\ w[i] = g
    <3>1. i \in 1 .. m /\ i # m
      <4>1. m \in Int
            BY <1>2a
      <4> QED BY <2>4, <4>1
    <3> QED BY <1>9, <2>2, <3>1
  <2> QED BY <1>1, <1>10, <2>1, <2>3, <2>5 DEF Seen, BlankChars
<1> QED BY <1>0, <1>8, <1>10, <1>12, <1>13, <1>14, <1>15 DEF N, T

-----------------------------------------------------------------------------
(* What fillGlyphStream leaves in the parser, in both runs.                 *)

\* Nothing more may be read.
LEMMA EofBatch ==
  ASSUME NEW d \in Seq(Token), NEW o \in 0 .. Len(d)
  PROVE  LET w == <<Len(d) + 1>>
         IN  /\ w \in Seq(1 .. Len(d) + 1) /\ UpTo(d, w, o)
             /\ \A i \in DOMAIN w : o < w[i]
             /\ Seen(d, w) = Ahead(d, o, o) /\ w # <<>>
<1> DEFINE w == <<Len(d) + 1>>
<1>1. Len(d) \in Nat /\ DOMAIN d = 1 .. Len(d)
      BY LenProperties
<1>2. w \in Seq(1 .. Len(d) + 1) /\ DOMAIN w = 1 .. 1 /\ w[1] = Len(d) + 1 /\ w # <<>>
      BY <1>1
<1> HIDE DEF w
<1>3. \A i \in DOMAIN w : i = 1 /\ w[i] = Len(d) + 1
      BY <1>2
<1>4. UpTo(d, w, o) /\ \A i \in DOMAIN w : o < w[i]
      BY <1>1, <1>3 DEF UpTo, InOrder
<1>5. Seen(d, w) = {} /\ Ahead(d, o, o) = {}
      BY <1>1, <1>3, AheadIs DEF Seen
<1> QED BY <1>2, <1>4, <1>5 DEF w

\* The state that FillBuffer may find.
MayRead ==
  /\ ReadEnd \in 0 .. Len(doc) /\ parser.off <= ReadEnd
  /\ parser.held = 1 =>
       mode = "pb" /\ parser.off + 1 = ReadEnd /\ doc[ReadEnd] \notin Tag

Held == IF ~AtTermOff /\ LosesLast(ReadOn) THEN 1 ELSE parser.held

\* What it leaves.
ReadFacts(b) ==
  /\ b.glyphs \in Seq(Glyphs) /\ b.resume \in BOOLEAN
  /\ b.off \in parser.off .. ReadEnd /\ Held \in {0, 1}
  /\ UpTo(doc, b.glyphs, b.off) /\ \A i \in DOMAIN b.glyphs : parser.off < b.glyphs[i]
  /\ Seen(doc, b.glyphs) = Ahead(doc, parser.off, b.off)
  /\ NoEof(doc, b.glyphs) \/ b.off + Held >= ReadEnd
  /\ Held = 1 => mode = "pb" /\ b.off + 1 = ReadEnd /\ doc[ReadEnd] \notin Tag
  /\ mode = "paginate" =>
       /\ NoEof(doc, b.glyphs) \/ (b.glyphs = <<Eof>> /\ b.off = Len(doc))
       /\ b.glyphs # <<>> => EndsIn(doc, b.off, b.glyphs)

LEMMA FilledAtEnd ==
  ASSUME TypeOK, MayRead, AtTermOff
  PROVE  ReadFacts(Filled) /\ Filled.off = parser.off /\ Held = parser.held
         /\ Filled.glyphs = <<Eof>>
<1> DEFINE b == Filled
<1>1. doc \in Seq(Token) /\ Len(doc) \in Nat /\ Eof = Len(doc) + 1 /\ doc[Len(doc)] \in Tag
      BY DocIs
<1>2. /\ parser.off \in 0 .. Len(doc) /\ parser.resume \in BOOLEAN /\ parser.held \in {0, 1}
      BY DEF TypeOK, ParserType, Offset
<1>3. /\ b.glyphs = <<Eof>> /\ b.off = parser.off /\ b.resume = parser.resume
      /\ Held = parser.held
      BY DEF Filled, Batch, Held
<1>4. /\ b.glyphs \in Seq(Glyphs) /\ UpTo(doc, b.glyphs, b.off)
      /\ \A i \in DOMAIN b.glyphs : parser.off < b.glyphs[i]
      /\ Seen(doc, b.glyphs) = Ahead(doc, parser.off, b.off)
      BY <1>1, <1>2, <1>3, EofBatch DEF Glyphs
<1>5. parser.off + parser.held >= ReadEnd /\ parser.off <= ReadEnd /\ ReadEnd \in 0 .. Len(doc)
      BY DEF MayRead, AtTermOff
<1>6. b.off \in parser.off .. ReadEnd /\ b.off + Held >= ReadEnd
      BY <1>2, <1>3, <1>5
<1>7. Held = 1 => mode = "pb" /\ b.off + 1 = ReadEnd /\ doc[ReadEnd] \notin Tag
      BY <1>3 DEF MayRead
<1>8. mode = "paginate" =>
        /\ b.glyphs = <<Eof>> /\ b.off = Len(doc)
        /\ b.glyphs # <<>> => EndsIn(doc, b.off, b.glyphs)
  <2> SUFFICES ASSUME mode = "paginate"
               PROVE  b.glyphs = <<Eof>> /\ b.off = Len(doc) /\ EndsIn(doc, b.off, b.glyphs)
      OBVIOUS
  <2>1. ReadEnd = Len(doc) /\ parser.held = 0
        BY <1>2 DEF ReadEnd, MayRead
  <2>2. b.off = Len(doc)
        BY <1>1, <1>2, <1>3, <1>5, <2>1
  <2> QED BY <1>1, <1>3, <2>2 DEF EndsIn
<1> QED BY <1>2, <1>3, <1>4, <1>6, <1>7, <1>8 DEF ReadFacts

\* Reading on, up to ReadEnd.
LEMMA ReadOnIs ==
  ASSUME TypeOK, MayRead, ~AtTermOff
  PROVE  /\ BatchIn(doc, ReadEnd, parser.off, ReadOn) /\ ReadOn.glyphs \in Seq(1 .. ReadEnd + 1)
         /\ parser.held = 0 /\ parser.off \in 0 .. ReadEnd /\ parser.off < ReadEnd
<1>1. doc \in Seq(Token) /\ Len(doc) \in Nat
      BY DocIs
<1>2. /\ parser.off \in 0 .. Len(doc) /\ parser.resume \in BOOLEAN /\ parser.held \in {0, 1}
      BY DEF TypeOK, ParserType, Offset
<1>3. ReadEnd \in 0 .. Len(doc) /\ parser.off <= ReadEnd
      BY DEF MayRead
<1>4. ~(parser.off + parser.held >= ReadEnd)
      BY DEF AtTermOff
<1>5. parser.off \in 0 .. ReadEnd /\ parser.off < ReadEnd
      BY <1>1, <1>2, <1>3, <1>4
<1>6. parser.held = 0
      BY <1>2, <1>4, <1>5, <1>3, <1>1 DEF MayRead
<1>7. BatchIn(doc, ReadEnd, parser.off, ReadOn) /\ ReadOn.glyphs \in Seq(1 .. ReadEnd + 1)
      BY <1>1, <1>2, <1>3, <1>5, PrefixBatch DEF ReadOn
<1> QED BY <1>5, <1>6, <1>7

LEMMA FilledShort ==
  ASSUME TypeOK, MayRead, ~AtTermOff, LosesLast(ReadOn)
  PROVE  ReadFacts(Filled)
<1> DEFINE b == Filled
           r == ReadOn
           e == ReadEnd
           m == CHOOSE i \in DOMAIN r.glyphs : r.glyphs[i] = e
           o == parser.off
<1>1. doc \in Seq(Token) /\ Len(doc) \in Nat /\ Eof = Len(doc) + 1
      BY DocIs
<1>2. /\ BatchIn(doc, e, o, r) /\ r.glyphs \in Seq(1 .. e + 1)
      /\ o \in 0 .. e /\ o < e /\ e \in 0 .. Len(doc)
      BY ReadOnIs DEF MayRead
<1>3. /\ mode = "pb" /\ doc[e] \notin Tag /\ m \in DOMAIN r.glyphs /\ r.glyphs[m] = e
      BY DEF LosesLast
<1>4. b = [r EXCEPT !.glyphs = SubSeq(@, 1, m - 1) \o <<Eof>>, !.off = e - 1, !.resume = FALSE]
      BY DEF Filled, Shortened
<1>5. r = [glyphs |-> r.glyphs, off |-> r.off, resume |-> r.resume, setsAttrib |-> r.setsAttrib]
      BY DEF ReadOn, Fill, Words, Batch
<1>6. b.glyphs = SubSeq(r.glyphs, 1, m - 1) \o <<Len(doc) + 1>> /\ b.off = e - 1 /\ b.resume = FALSE
      BY <1>1, <1>4, <1>5
<1>7. Held = 1
      BY DEF Held
<1> HIDE DEF b, r, m, e, o
<1>8. /\ b.glyphs \in Seq(1 .. Len(doc) + 1) /\ UpTo(doc, b.glyphs, e - 1)
      /\ \A i \in DOMAIN b.glyphs : o < b.glyphs[i]
      /\ Seen(doc, b.glyphs) = Ahead(doc, o, e - 1)
  <2>1. /\ doc \in Seq(Token) /\ e \in 0 .. Len(doc) /\ o \in 0 .. e /\ BatchIn(doc, e, o, r)
        /\ r.glyphs \in Seq(1 .. e + 1) /\ m \in DOMAIN r.glyphs /\ r.glyphs[m] = e /\ o < e
        BY <1>1, <1>2, <1>3
  <2>2. Short(doc, r.glyphs, m) \in Seq(1 .. Len(doc) + 1)
        BY ONLY <2>1, ShortBatch
  <2>2a. UpTo(doc, Short(doc, r.glyphs, m), e - 1)
        BY ONLY <2>1, ShortBatch
  <2>2b. \A i \in DOMAIN Short(doc, r.glyphs, m) : o < Short(doc, r.glyphs, m)[i]
        BY ONLY <2>1, ShortBatch
  <2>2c. Seen(doc, Short(doc, r.glyphs, m)) = Ahead(doc, o, e - 1)
        BY ONLY <2>1, ShortBatch
  <2>3. b.glyphs = Short(doc, r.glyphs, m)
        BY <1>6 DEF Short
  <2> QED BY <2>2, <2>2a, <2>2b, <2>2c, <2>3
<1>9. e - 1 \in o .. e /\ (e - 1) + 1 = e
      BY <1>1, <1>2
<1>10. b.glyphs \in Seq(Glyphs)
      BY <1>1, <1>8 DEF Glyphs
<1>11. /\ b.off \in o .. e /\ b.off + Held >= e /\ b.off + 1 = e
      BY <1>6, <1>7, <1>9, <1>1, <1>2
<1> QED BY <1>3, <1>6, <1>7, <1>8, <1>10, <1>11 DEF ReadFacts, b, e, o

LEMMA FilledWhole ==
  ASSUME TypeOK, MayRead, ~AtTermOff, ~LosesLast(ReadOn)
  PROVE  ReadFacts(Filled)
<1> DEFINE b == Filled
           r == ReadOn
           e == ReadEnd
           o == parser.off
           N == Len(doc)
<1>1. doc \in Seq(Token) /\ N \in Nat /\ N > 0 /\ Eof = N + 1 /\ doc[N] \in Tag
      BY DocIs
<1>2. /\ BatchIn(doc, e, o, r) /\ r.glyphs \in Seq(1 .. e + 1)
      /\ o \in 0 .. e /\ o < e /\ e \in 0 .. N /\ parser.held = 0
      BY ReadOnIs DEF MayRead
<1>3. b = [r EXCEPT !.glyphs = [i \in DOMAIN @ |-> IF @[i] > e THEN Eof ELSE @[i]]]
      BY DEF Filled, WithEof
<1>4. r = [glyphs |-> r.glyphs, off |-> r.off, resume |-> r.resume, setsAttrib |-> r.setsAttrib]
      BY DEF ReadOn, Fill, Words, Batch
<1>5. /\ b.glyphs = [i \in DOMAIN r.glyphs |-> IF r.glyphs[i] > e THEN N + 1 ELSE r.glyphs[i]]
      /\ b.off = r.off /\ b.resume = r.resume
      BY <1>1, <1>3, <1>4
<1>6. Held = 0
      BY <1>2 DEF Held
<1>7. mode = "paginate" =>
        e = N /\ (r.glyphs = <<N + 1>> \/ \A i \in 1 .. Len(r.glyphs) : r.glyphs[i] # N + 1)
  <2> SUFFICES ASSUME mode = "paginate"
               PROVE  /\ e = N
                      /\ r.glyphs = <<N + 1>> \/ \A i \in 1 .. Len(r.glyphs) : r.glyphs[i] # N + 1
      OBVIOUS
  <2> DEFINE p == SubSeq(doc, 1, e)
  <2>1. e = N
        BY DEF ReadEnd
  <2>2. p \in Seq(Token) /\ Len(p) = N /\ p[N] = doc[N]
    <3>1. /\ p \in Seq(Token) /\ Len(p) = e /\ \A i \in 1 .. e : p[i] = doc[i]
          BY <1>1, <1>2, PrefixFacts
    <3> HIDE DEF p
    <3> QED BY <1>1, <2>1, <3>1
  <2>3. parser.resume \in BOOLEAN /\ WordMax \in Nat
        BY PageBasedAssumption DEF PageBasedAssumption, TypeOK, ParserType
  <2>4. r = Fill(p, o, parser.resume)
        BY DEF ReadOn
  <2> HIDE DEF p, r, e, o, N
  <2>5. o \in 0 .. Len(p) /\ Len(p) > 0 /\ p[Len(p)] \in Tag
        BY <1>1, <1>2, <2>1, <2>2
  <2> QED BY <2>1, <2>2, <2>3, <2>4, <2>5, FillEof
<1> HIDE DEF b, r, e, o, N
<1>8. /\ b.glyphs \in Seq(1 .. N + 1) /\ UpTo(doc, b.glyphs, b.off)
      /\ \A i \in DOMAIN b.glyphs : o < b.glyphs[i]
      /\ Seen(doc, b.glyphs) = Ahead(doc, o, b.off)
      /\ NoEof(doc, b.glyphs) \/ b.off = e
      /\ b.glyphs # <<>> => b.glyphs[Len(b.glyphs)] \in {b.off, N + 1}
  <2> DEFINE w == Whole(doc, e, r.glyphs)
  <2>0. e \in 0 .. Len(doc)
        BY <1>2 DEF N
  <2>1. /\ w \in Seq(1 .. Len(doc) + 1) /\ UpTo(doc, w, r.off)
        /\ \A i \in DOMAIN w : o < w[i]
        /\ Seen(doc, w) = Ahead(doc, o, r.off)
        /\ NoEof(doc, w) \/ r.off = e
        /\ w # <<>> => w[Len(w)] \in {r.off, Len(doc) + 1}
        BY <1>1, <1>2, <2>0, WholeBatch
  <2>2. b.glyphs = w /\ b.off = r.off
        BY <1>5 DEF N, Whole
  <2> HIDE DEF w
  <2> QED BY <2>1, <2>2 DEF N
<1>9. b.off \in o .. e /\ b.resume \in BOOLEAN
      BY <1>2, <1>5 DEF BatchIn
<1>10. b.glyphs \in Seq(Glyphs)
      BY <1>1, <1>8 DEF Glyphs
<1>11. NoEof(doc, b.glyphs) \/ b.off + Held >= e
  <2>1. b.off = e => b.off + Held >= e
        BY <1>1, <1>2, <1>6
  <2> QED BY <1>8, <2>1
<1>12. ASSUME mode = "paginate"
       PROVE  /\ NoEof(doc, b.glyphs) \/ (b.glyphs = <<N + 1>> /\ b.off = N)
              /\ b.glyphs # <<>> => EndsIn(doc, b.off, b.glyphs)
  <2>1. e = N /\ DOMAIN r.glyphs = 1 .. Len(r.glyphs)
        BY <1>2, <1>7, <1>12, LenProperties
  <2>2. CASE r.glyphs = <<N + 1>>
    <3>1. DOMAIN r.glyphs = 1 .. 1 /\ r.glyphs[1] = N + 1 /\ N + 1 > N
          BY <1>1, <2>2
    <3>2. b.glyphs = [i \in 1 .. 1 |-> N + 1]
          BY <1>5, <2>1, <3>1
    <3>3. b.glyphs = <<N + 1>>
          BY <3>2
    <3>4. ~NoEof(doc, b.glyphs)
          BY <3>2 DEF NoEof, N
    <3>5. b.off = N
          BY <1>8, <2>1, <3>4
    <3> QED BY <1>1, <3>3, <3>5 DEF EndsIn
  <2>3. CASE \A i \in 1 .. Len(r.glyphs) : r.glyphs[i] # N + 1
    <3>1. ASSUME NEW i \in DOMAIN r.glyphs PROVE b.glyphs[i] = r.glyphs[i]
      <4>1. r.glyphs[i] \in 1 .. N + 1
            BY <1>2, <2>1, ElementOfSeq
      <4>2. ~(r.glyphs[i] > e)
            BY <1>1, <2>1, <2>3, <4>1
      <4> QED BY <1>5, <4>2
    <3>2. DOMAIN b.glyphs = DOMAIN r.glyphs
          BY <1>5
    <3>3. NoEof(doc, b.glyphs)
          BY <2>1, <2>3, <3>1, <3>2 DEF NoEof, N
    <3>4. ASSUME b.glyphs # <<>> PROVE b.glyphs[Len(b.glyphs)] = b.off
      <4>1. Len(b.glyphs) \in DOMAIN b.glyphs
            BY <1>8, <3>4, EmptySeq, LenProperties
      <4> QED BY <1>8, <3>3, <3>4, <4>1 DEF NoEof, N
    <3> QED BY <3>3, <3>4 DEF EndsIn
  <2> QED BY <1>7, <1>12, <2>2, <2>3
<1> QED BY <1>1, <1>6, <1>8, <1>9, <1>10, <1>11, <1>12 DEF ReadFacts, b, e, o, N

LEMMA FilledFacts ==
  ASSUME TypeOK, MayRead
  PROVE  /\ ReadFacts(Filled)
         /\ AtTermOff => /\ Filled.off = parser.off /\ Held = parser.held
                         /\ Filled.glyphs = <<Eof>>
BY FilledAtEnd, FilledShort, FilledWhole

-----------------------------------------------------------------------------
(* The files, and what the calls and the end of a page do to them.          *)

LEMMA Names ==
  /\ \A a, b, c : <<a, b>> # <<c>>
  /\ \A a, b : <<a>> = <<b>> => a = b
<1>1. ASSUME NEW a, NEW b, NEW c PROVE <<a, b>> # <<c>>
  <2>1. Len(<<a, b>>) = 2 /\ Len(<<c>>) = 1
        OBVIOUS
  <2> QED BY <2>1
<1>2. ASSUME NEW a, NEW b, <<a>> = <<b>> PROVE a = b
  <2>1. <<a>>[1] = a /\ <<b>>[1] = b
        OBVIOUS
  <2> QED BY <1>2, <2>1
<1> QED BY <1>1, <1>2

LEMMA ParserTypes ==
  ASSUME TypeOK
  PROVE  /\ parser.off \in 0 .. Len(doc) /\ parser.term \in 0 .. Len(doc)
         /\ parser.buf \in Seq(Glyphs) /\ parser.resume \in BOOLEAN
         /\ parser.held \in {0, 1} /\ parser.freed \in BOOLEAN
         /\ mgr \in MgrType /\ mgr.cur \in Nat /\ mgr.max \in Nat /\ mgr.num \in Nat
         /\ call.n \in Nat /\ call.i \in Nat /\ call.fwd \in BOOLEAN
         /\ parser.off \in Int /\ parser.term \in Int /\ Glyphs = 1 .. Len(doc) + 1
         /\ parser = [off |-> parser.off, buf |-> parser.buf, resume |-> parser.resume,
                      term |-> parser.term, held |-> parser.held, freed |-> parser.freed]
<1>1. doc \in Seq(Token) /\ Len(doc) \in Nat /\ Eof = Len(doc) + 1
      BY DocIs
<1> QED BY <1>1 DEF TypeOK, ParserType, MgrType, CallType, Offset, Glyphs

LEMMA FileTypes ==
  ASSUME TypeOK, NEW f \in DOMAIN pg
  PROVE  /\ pg[f].done \in BOOLEAN
         /\ pg[f].off \in 0 .. Len(doc) /\ pg[f].term \in 0 .. Len(doc)
         /\ pg[f].off \in Int /\ pg[f].term \in Int
         /\ pg[f].buf \in Seq(Glyphs) /\ (pg[f].done => pg[f].off <= pg[f].term)
         /\ content[f] \in Seq(DOMAIN doc) /\ f \in DOMAIN content
<1>1. doc \in Seq(Token) /\ Len(doc) \in Nat
      BY DocIs
<1>2. pg[f] \in FileType /\ (pg[f].done => pg[f].off <= pg[f].term)
      /\ content[f] \in Seq(DOMAIN doc) /\ f \in DOMAIN content
      BY DEF TypeOK, FilesOK
<1> QED BY <1>1, <1>2 DEF FileType, Offset

\* A page is begun.
LEMMA StartPageFacts ==
  ASSUME TypeOK, FileInv, NEW s \in Nat, StartPage(s), UNCHANGED <<mode, doc, cur>>,
         mode # "pb" => NoEof(doc, parser.buf)
  PROVE  /\ FilesOK' /\ FileInv' /\ (parser \in ParserType)' /\ lo' = lo /\ back' = back
         /\ parser'.off = parser.off /\ parser'.buf = parser.buf
         /\ parser'.term = parser.term /\ parser'.held = parser.held
         /\ DOMAIN pg' = DOMAIN pg \cup {File(s)}
         /\ pg'[File(s)].off = parser.off /\ pg'[File(s)].buf = parser.buf
         /\ content'[File(s)] = <<>>
         /\ \A f \in DOMAIN pg : f # File(s) => pg'[f] = pg[f] /\ content'[f] = content[f]
<1> DEFINE F == File(s)
           v == [done |-> FALSE, off |-> parser.off, term |-> 0, buf |-> parser.buf]
<1>1. pg' = Write(pg, F, v) /\ content' = Write(content, F, <<>>)
      /\ parser' = [parser EXCEPT !.freed = HasEof(parser.buf)] /\ lo' = lo /\ back' = back
      BY DEF StartPage
<1>2. DOMAIN pg = DOMAIN content
      BY DEF TypeOK, FilesOK
<1> HIDE DEF F
<1>3. /\ DOMAIN pg' = DOMAIN pg \cup {F} /\ DOMAIN content' = DOMAIN pg \cup {F}
      /\ pg'[F] = v /\ content'[F] = <<>>
      /\ \A f \in DOMAIN pg : f # F => pg'[f] = pg[f] /\ content'[f] = content[f]
  <2> HIDE DEF v
  <2>1. /\ DOMAIN pg' = DOMAIN pg \cup {F} /\ pg'[F] = v
        /\ \A f \in DOMAIN pg : f # F => pg'[f] = pg[f]
        BY <1>1 DEF Write
  <2>2. /\ DOMAIN content' = DOMAIN pg \cup {F} /\ content'[F] = <<>>
        /\ \A f \in DOMAIN pg : f # F => content'[f] = content[f]
        BY <1>1, <1>2 DEF Write
  <2> QED BY <2>1, <2>2
<1>4. /\ doc \in Seq(Token) /\ Len(doc) \in Nat
      BY DocIs
<1>5. /\ parser.off \in Offset /\ parser.buf \in Seq(Glyphs) /\ 0 \in Offset
      BY <1>4, ParserTypes DEF Offset
<1>6. /\ Offset' = Offset /\ Glyphs' = Glyphs /\ (DOMAIN doc)' = DOMAIN doc
      BY DEF Offset, Glyphs, Eof
<1>7. v \in FileType /\ ~v.done /\ v.off = parser.off /\ v.buf = parser.buf
      BY <1>5 DEF FileType
<1>8. FileType' = FileType /\ ParserType' = ParserType
      BY <1>6 DEF FileType, ParserType
<1> HIDE DEF v
<1>9. FilesOK'
  <2>1. ASSUME NEW f \in DOMAIN pg'
        PROVE  /\ pg'[f] \in FileType /\ (pg'[f].done => pg'[f].off <= pg'[f].term)
               /\ content'[f] \in Seq(DOMAIN doc)
    <3>1. CASE f = F
          BY <1>3, <1>7, <3>1
    <3>2. CASE f # F
      <4>1. f \in DOMAIN pg
            BY <1>3, <3>2
      <4> QED BY <1>3, <3>2, <4>1 DEF TypeOK, FilesOK
    <3> QED BY <3>1, <3>2
  <2> QED BY <1>3, <1>6, <1>8, <2>1 DEF FilesOK
<1>10. /\ parser'.off = parser.off /\ parser'.buf = parser.buf /\ parser'.term = parser.term
       /\ parser'.held = parser.held /\ parser' \in ParserType
  <2>1. parser \in ParserType /\ HasEof(parser.buf) \in BOOLEAN
        BY DEF TypeOK, HasEof
  <2> QED BY <1>1, <2>1 DEF ParserType
<1>11. FileInv'
  <2>1. UpTo(doc, parser'.buf, parser'.off) /\ UpTo(doc, parser.buf, parser.off)
        BY <1>10 DEF FileInv
  <2>2. ASSUME NEW f \in DOMAIN pg' PROVE UpTo(doc, pg'[f].buf, pg'[f].off)
    <3>1. CASE f = F
          BY <1>3, <1>7, <2>1, <3>1
    <3>2. CASE f # F
          BY <1>3, <3>2 DEF FileInv
    <3> QED BY <3>1, <3>2
  <2>3. ASSUME NEW p \in Nat, <<p>> \in DOMAIN pg' PROVE NoEof(doc, pg'[<<p>>].buf)
    <3>1. CASE <<p>> = F
      <4>1. mode # "pb"
            BY <3>1, Names DEF F, File
      <4> QED BY <1>3, <1>7, <3>1, <4>1
    <3>2. CASE <<p>> # F
          BY <1>3, <2>3, <3>2 DEF FileInv
    <3> QED BY <3>1, <3>2
  <2> QED BY <2>1, <2>2, <2>3 DEF FileInv
<1> QED BY <1>1, <1>3, <1>7, <1>8, <1>9, <1>10, <1>11 DEF F

\* What is recovered from a file.
LEMMA RecoveredFacts ==
  ASSUME TypeOK, FileInv, NEW f
  PROVE  /\ Recovered(f).off \in Offset /\ Recovered(f).term \in Offset
         /\ Recovered(f).off \in Int /\ Recovered(f).term \in Int
         /\ Recovered(f).off <= Recovered(f).term
         /\ Recovered(f).buf \in Seq(Glyphs)
         /\ UpTo(doc, Recovered(f).buf, Recovered(f).off)
         /\ \A p \in Nat : f = <<p>> => NoEof(doc, Recovered(f).buf)
<1> DEFINE r == [done |-> FALSE, off |-> 0, term |-> 0, buf |-> <<>>]
<1>1. Len(doc) \in Nat
      BY DocIs
<1>2. CASE f \in DOMAIN pg /\ pg[f].done
  <2>1. Recovered(f) = pg[f]
        BY <1>2 DEF Recovered
  <2>2. /\ pg[f].off \in Offset /\ pg[f].term \in Offset /\ pg[f].buf \in Seq(Glyphs)
        /\ pg[f].off \in Int /\ pg[f].term \in Int /\ pg[f].off <= pg[f].term
        BY <1>2, FileTypes DEF Offset
  <2>3. UpTo(doc, pg[f].buf, pg[f].off) /\ \A p \in Nat : f = <<p>> => NoEof(doc, pg[f].buf)
        BY <1>2 DEF FileInv
  <2> QED BY <2>1, <2>2, <2>3
<1>3. CASE ~(f \in DOMAIN pg /\ pg[f].done)
  <2>1. Recovered(f) = r
        BY <1>3 DEF Recovered
  <2>2. r.off = 0 /\ r.term = 0 /\ r.buf = <<>>
        OBVIOUS
  <2> HIDE DEF r
  <2>3. 0 \in Offset /\ 0 \in Int /\ 0 <= 0 /\ <<>> \in Seq(Glyphs)
        BY <1>1 DEF Offset
  <2> QED BY <2>1, <2>2, <2>3, EmptyText
<1> QED BY <1>2, <1>3

LEMMA RestoredFacts ==
  ASSUME TypeOK, FileInv, NEW f
  PROVE  /\ Restored(f) \in ParserType
         /\ Restored(f).off = Recovered(f).off /\ Restored(f).buf = Recovered(f).buf
         /\ Restored(f).term = Recovered(f).term /\ Restored(f).held = 0
<1> DEFINE r == Recovered(f)
<1>1. r.off \in Offset /\ r.term \in Offset /\ r.buf \in Seq(Glyphs)
      BY RecoveredFacts
<1>2. parser.resume \in BOOLEAN /\ HasEof(r.buf) \in BOOLEAN
      BY ParserTypes DEF HasEof
<1>3. Restored(f) = [off |-> r.off, buf |-> r.buf, resume |-> parser.resume,
                     term |-> r.term, held |-> 0, freed |-> HasEof(r.buf)]
      BY DEF Restored
<1> HIDE DEF r
<1>4. Restored(f) \in ParserType
      BY <1>1, <1>2, <1>3 DEF ParserType
<1> QED BY <1>3, <1>4 DEF r

\* A page ends.
LEMMA EndPageFacts ==
  ASSUME TypeOK, FileInv, NEW m \in MgrType, EndPage(m), UNCHANGED <<doc, content>>,
         parser'.off = parser.off,
         sub = mgr.num => File(sub) \in DOMAIN pg /\ pg[File(sub)].off <= parser.off
  PROVE  /\ FilesOK' /\ (mgr \in MgrType)' /\ mgr'.max = m.max
         /\ mgr'.num = (IF sub = mgr.num THEN m.num + 1 ELSE m.num)
         /\ DOMAIN pg' = DOMAIN pg
         /\ \A f \in DOMAIN pg : /\ pg'[f].off = pg[f].off /\ pg'[f].buf = pg[f].buf
                                 /\ f # File(sub) => pg'[f] = pg[f]
         /\ sub = mgr.num => pg'[File(sub)].done /\ pg'[File(sub)].term = parser.off
         /\ \A f \in DOMAIN pg' : UpTo(doc', pg'[f].buf, pg'[f].off)
         /\ \A p \in Nat : <<p>> \in DOMAIN pg' => NoEof(doc', pg'[<<p>>].buf)
<1> DEFINE F == File(sub)
<1>1. Len(doc) \in Nat /\ parser.off \in Offset
      BY DocIs, ParserTypes DEF Offset
<1>2. FileType' = FileType /\ DOMAIN pg = DOMAIN content
      BY DEF FileType, Offset, Glyphs, Eof, TypeOK, FilesOK
<1>3. CASE sub = mgr.num
  <2>1. /\ mgr' = [m EXCEPT !.num = @ + 1] /\ F \in DOMAIN pg /\ pg[F].off <= parser.off
        /\ pg' = [pg EXCEPT ![F].done = TRUE, ![F].term = parser.off]
        BY <1>3 DEF EndPage, TermOff
  <2>2. mgr' \in MgrType /\ mgr'.max = m.max /\ mgr'.num = m.num + 1
        BY <2>1 DEF MgrType
  <2>3. pg[F] \in FileType
        BY <2>1 DEF TypeOK, FilesOK
  <2> HIDE DEF F
  <2>4. /\ DOMAIN pg' = DOMAIN pg /\ \A f \in DOMAIN pg : f # F => pg'[f] = pg[f]
        BY <2>1
  <2>5. pg'[F] = [[pg[F] EXCEPT !.done = TRUE] EXCEPT !.term = parser.off]
        BY <2>1
  <2>6. /\ pg'[F] \in FileType /\ pg'[F].off = pg[F].off /\ pg'[F].buf = pg[F].buf
        /\ pg'[F].done /\ pg'[F].term = parser.off
        BY <1>1, <2>3, <2>5 DEF FileType
  <2>7. ASSUME NEW f \in DOMAIN pg
        PROVE  /\ pg'[f] \in FileType /\ (pg'[f].done => pg'[f].off <= pg'[f].term)
               /\ content'[f] \in Seq(DOMAIN doc)
               /\ pg'[f].off = pg[f].off /\ pg'[f].buf = pg[f].buf
               /\ f # F => pg'[f] = pg[f]
    <3>1. CASE f = F
          BY <2>1, <2>6, <3>1 DEF TypeOK, FilesOK
    <3>2. CASE f # F
          BY <2>4, <3>2 DEF TypeOK, FilesOK
    <3> QED BY <3>1, <3>2
  <2>8. FilesOK'
        BY <1>2, <2>4, <2>7 DEF FilesOK
  <2>9. MgrType' = MgrType
        BY DEF MgrType
  <2>10. /\ \A f \in DOMAIN pg' : UpTo(doc', pg'[f].buf, pg'[f].off)
         /\ \A p \in Nat : <<p>> \in DOMAIN pg' => NoEof(doc', pg'[<<p>>].buf)
        BY <2>4, <2>7 DEF FileInv
  <2> QED BY <1>3, <2>2, <2>4, <2>6, <2>7, <2>8, <2>9, <2>10 DEF F
<1>4. CASE sub # mgr.num
  <2>1. mgr' = m /\ pg' = pg
        BY <1>4 DEF EndPage
  <2>2. FilesOK'
        BY <1>2, <2>1 DEF FilesOK, TypeOK
  <2>3. MgrType' = MgrType
        BY DEF MgrType
  <2>4. /\ \A f \in DOMAIN pg' : UpTo(doc', pg'[f].buf, pg'[f].off)
        /\ \A p \in Nat : <<p>> \in DOMAIN pg' => NoEof(doc', pg'[<<p>>].buf)
        BY <2>1 DEF FileInv
  <2> QED BY <1>4, <2>1, <2>2, <2>3, <2>4
<1> QED BY <1>3, <1>4

-----------------------------------------------------------------------------
(* The steps.  Each keeps the types and the inductive invariant.            *)

IInv == TypeOK /\ SubPageInv

LEMMA InitInv == Init => IInv
<1> SUFFICES ASSUME Init PROVE IInv
    OBVIOUS
<1>1. doc \in Seq(Token) /\ doc # <<>> /\ Len(doc) \in Nat
      BY PageBasedAssumption, LenProperties DEF PageBasedAssumption, Init
<1>2. /\ parser = FreshParser /\ mgr = FreshMgr /\ pg = Empty /\ content = Empty
      /\ doc \in Docs /\ mode = "paginate" /\ st = "idle" /\ cur = -1 /\ call = NoCall
      /\ sub = 0 /\ newPage = FALSE /\ shown = <<>> /\ out = <<>> /\ back = FALSE
      /\ size = OldSize /\ widTab = OldSize /\ lo = NewPage(NewLayout)
      BY DEF Init
<1>3. FreshParser \in ParserType /\ FreshMgr \in MgrType /\ NoCall \in CallType
      BY <1>1 DEF FreshParser, FreshMgr, NoCall, ParserType, MgrType, CallType, Offset, NoMax
<1>4. DOMAIN Empty = {}
      BY DEF Empty
<1>5. FilesOK
      BY <1>2, <1>4 DEF FilesOK
<1>6. TypeOK
  <2>1. lo \in Layout /\ size \in NewSizes \cup {OldSize} /\ widTab \in NewSizes \cup {OldSize}
        BY <1>2, FirstPageType
  <2>2. <<>> \in Seq(DOMAIN doc) /\ 0 \in Nat /\ -1 \in Nat \cup {-1} /\ FALSE \in BOOLEAN
        OBVIOUS
  <2>3. parser \in ParserType /\ mgr \in MgrType /\ call \in CallType
        BY <1>2, <1>3
  <2> QED BY ONLY <1>2, <1>5, <2>1, <2>2, <2>3 DEF TypeOK
<1>7. /\ parser.off = 0 /\ parser.buf = <<>> /\ parser.held = 0
      /\ mgr.max = NoMax /\ mgr.num = 0
      BY <1>2 DEF FreshParser, FreshMgr
<1>8. FileInv
      BY <1>2, <1>4, <1>7, EmptyText DEF FileInv
<1>9. FirstRun
  <2>1. DOMAIN pg = {<<p>> : p \in 0 .. (IF st = "draw" THEN mgr.num ELSE mgr.num - 1)}
        BY <1>2, <1>4, <1>7
  <2>2. \A p \in 0 .. mgr.num - 1 : PageDone(p, BufferAfter(p))
        BY <1>7
  <2> QED BY <1>2, <1>7, <2>1, <2>2, EmptyText DEF FirstRun
<1> QED BY <1>2, <1>6, <1>8, <1>9 DEF IInv, SubPageInv

LEMMA PaginateStep == ASSUME IInv, Paginate PROVE IInv'
<1> DEFINE n == mgr.num
           F == <<n>>
<1>1. TypeOK /\ FileInv /\ FirstRun /\ mode = "paginate" /\ st = "idle" /\ mgr.max = NoMax
      BY DEF IInv, SubPageInv, Paginate
<1>2. /\ sub' = n /\ newPage' = TRUE /\ st' = "draw" /\ shown' = <<>> /\ StartPage(n)
      /\ UNCHANGED <<mode, doc, size, widTab, cur, out, mgr, call>>
      BY DEF Paginate, Render, input
<1>3. n \in Nat /\ Len(doc) \in Nat
      BY <1>1, ParserTypes, DocIs
<1>4. File(n) = F
      BY <1>1 DEF File
<1>5. NoEof(doc, parser.buf)
      BY <1>1 DEF FirstRun
<1>6. /\ FilesOK' /\ FileInv' /\ (parser \in ParserType)' /\ lo' = lo /\ back' = back
      /\ parser'.off = parser.off /\ parser'.buf = parser.buf
      /\ parser'.term = parser.term /\ parser'.held = parser.held
      /\ DOMAIN pg' = DOMAIN pg \cup {F}
      /\ pg'[F].off = parser.off /\ pg'[F].buf = parser.buf
      /\ content'[F] = <<>>
      /\ \A f \in DOMAIN pg : f # F => pg'[f] = pg[f] /\ content'[f] = content[f]
      BY <1>1, <1>2, <1>3, <1>4, <1>5, StartPageFacts
<1>7. TypeOK'
  <2>1. <<>> \in Seq(DOMAIN doc) /\ TRUE \in BOOLEAN
        OBVIOUS
  <2>2. MgrType' = MgrType /\ CallType' = CallType
        BY DEF MgrType, CallType
  <2> QED BY <1>1, <1>2, <1>3, <1>6, <2>1, <2>2 DEF TypeOK
<1>8. DOMAIN pg = {<<p>> : p \in 0 .. n - 1}
      BY <1>1 DEF FirstRun
<1> HIDE DEF n
<1>9. DOMAIN pg' = {<<p>> : p \in 0 .. n}
  <2>1. \A p \in 0 .. n : p \in 0 .. n - 1 \/ p = n
        BY <1>3
  <2>2. \A p \in 0 .. n - 1 : p \in 0 .. n
        BY <1>3
  <2>3. n \in 0 .. n
        BY <1>3
  <2> QED BY <1>6, <1>8, <2>1, <2>2, <2>3
<1>10. ASSUME NEW p \in 0 .. n - 1 PROVE PageDone(p, BufferAfter(p))'
  <2>1. PageDone(p, BufferAfter(p)) /\ <<p>> \in DOMAIN pg /\ p # n
        BY <1>1, <1>3, <1>8 DEF FirstRun, n
  <2>2. pg'[<<p>>] = pg[<<p>>] /\ content'[<<p>>] = content[<<p>>]
        BY <1>6, <2>1, Names
  <2>3. BufferAfter(p)' = BufferAfter(p)
    <3>1. <<p + 1>> \in DOMAIN pg'
      <4>1. p + 1 \in 0 .. n
            BY <1>3
      <4> QED BY <1>9, <4>1
    <3>2. CASE p + 1 = n
      <4>1. <<p + 1>> \notin DOMAIN pg
            BY <1>3, <1>8, <3>2, Names
      <4> QED BY <1>6, <3>1, <3>2, <4>1 DEF BufferAfter
    <3>3. CASE p + 1 # n
      <4>1. p + 1 \in 0 .. n - 1
            BY <1>3, <3>3
      <4>2. <<p + 1>> \in DOMAIN pg /\ <<p + 1>> # F
            BY <1>8, <3>3, <4>1, Names
      <4> QED BY <1>6, <3>1, <4>2 DEF BufferAfter
    <3> QED BY <3>2, <3>3
  <2> QED BY <1>2, <2>1, <2>2, <2>3 DEF PageDone
<1>11. Covers(doc', pg'[<<sub'>>], content'[<<sub'>>], parser'.buf, parser'.off)
  <2>1. pg'[F].off \in Int
        BY <1>1, <1>6, ParserTypes
  <2>2. doc \in Seq(Token)
        BY <1>1, DocIs
  <2>3. Covers(doc, pg'[F], <<>>, pg'[F].buf, pg'[F].off)
        BY <2>1, <2>2, CoversBegin
  <2> QED BY <1>2, <1>6, <2>3 DEF n
<1>12. FirstRun'
      BY <1>1, <1>2, <1>5, <1>6, <1>9, <1>10, <1>11 DEF FirstRun, n
<1> QED BY <1>1, <1>2, <1>6, <1>7, <1>12 DEF IInv, SubPageInv

LEMMA OpenPagesStep == ASSUME IInv, NEW b \in BOOLEAN, OpenPages(b) PROVE IInv'
<1>1. TypeOK /\ FileInv /\ FirstRun /\ mode = "paginate" /\ st = "idle" /\ mgr.max # NoMax
      BY DEF IInv, SubPageInv, OpenPages
<1>2. /\ mode' = "pb" /\ size' \in NewSizes /\ widTab' \in {widTab, size'}
      /\ parser' = FreshParser /\ lo' = NewPage(NewLayout) /\ mgr' = FreshMgr /\ shown' = <<>>
      /\ UNCHANGED <<doc, pg, cur, call, sub, newPage, st, content, out, back>>
      BY DEF OpenPages, PreBuildWidTab, frame, history
<1>3. Len(doc) \in Nat
      BY <1>1, DocIs
<1>4. FreshParser \in ParserType /\ FreshMgr \in MgrType
      BY <1>3 DEF FreshParser, FreshMgr, ParserType, MgrType, Offset, NoMax
<1>5. /\ FileType' = FileType /\ ParserType' = ParserType /\ MgrType' = MgrType
      /\ CallType' = CallType
      BY <1>2 DEF FileType, ParserType, MgrType, CallType, Offset, Glyphs, Eof
<1>6. FilesOK'
      BY <1>1, <1>2, <1>5 DEF TypeOK, FilesOK
<1>7. TypeOK'
  <2>1. lo' \in Layout /\ <<>> \in Seq(DOMAIN doc)
        BY <1>2, FirstPageType
  <2> QED BY <1>1, <1>2, <1>4, <1>5, <1>6, <2>1 DEF TypeOK
<1>8. parser'.off = 0 /\ parser'.buf = <<>> /\ parser'.held = 0 /\ parser'.term = 0
      BY <1>2 DEF FreshParser
<1>9. FileInv'
      BY <1>1, <1>2, <1>8, EmptyText DEF FileInv
<1>10. cur = -1 /\ parser.buf = <<>>
      BY <1>1 DEF FirstRun
<1>11. ASSUME NEW p \in Nat, <<p>> \in DOMAIN pg PROVE PageDone(p, BufferOf(<<p + 1>>))
  <2>1. p \in 0 .. mgr.num - 1
    <3>1. PICK q \in 0 .. mgr.num - 1 : <<p>> = <<q>>
          BY <1>1, <1>11 DEF FirstRun
    <3> QED BY <3>1, Names
  <2>2. PageDone(p, BufferAfter(p))
        BY <1>1, <2>1 DEF FirstRun
  <2>3. BufferAfter(p) = BufferOf(<<p + 1>>)
        BY <1>10 DEF BufferAfter, BufferOf
  <2> QED BY <2>2, <2>3
<1>12. \A p \in Nat : <<p>> \in DOMAIN pg' => PageDone(p, BufferOf(<<p + 1>>))'
      BY <1>2, <1>11 DEF PageDone, BufferOf
<1>13. SubRun'
  <2>1. ~(cur' >= 0) /\ st' = "idle"
        BY <1>1, <1>2, <1>10
  <2> QED BY <1>8, <1>12, <2>1 DEF SubRun
<1> QED BY <1>2, <1>7, <1>9, <1>13 DEF IInv, SubPageInv

LEMMA SetPageStep == ASSUME IInv, NEW p \in 0 .. MaxPage, SetPage(p) PROVE IInv'
<1> DEFINE R == Recovered(<<p>>)
<1>1. TypeOK /\ FileInv /\ SubRun /\ mode = "pb" /\ st = "idle"
      BY DEF IInv, SubPageInv, SetPage
<1>2. /\ lo' = Reset(lo) /\ mgr' = FreshMgr /\ parser' = Restored(<<p>>) /\ cur' = p
      /\ out' = <<>> /\ back' = FALSE
      /\ UNCHANGED <<mode, doc, size, widTab, pg, call, sub, newPage, st, shown, content>>
      BY DEF SetPage, LayoutReset, MgrReset, input
<1>3. p \in Nat /\ Len(doc) \in Nat /\ doc \in Seq(Token)
      BY <1>1, DocIs, PageBasedAssumption DEF PageBasedAssumption
<1>4. FreshMgr \in MgrType
      BY DEF FreshMgr, MgrType, NoMax
<1>5. /\ FileType' = FileType /\ ParserType' = ParserType /\ MgrType' = MgrType
      /\ CallType' = CallType
      BY <1>2 DEF FileType, ParserType, MgrType, CallType, Offset, Glyphs, Eof
<1>6. /\ parser' \in ParserType
      /\ parser'.off = R.off /\ parser'.buf = R.buf /\ parser'.term = R.term /\ parser'.held = 0
      BY <1>1, <1>2, RestoredFacts
<1>7. /\ R.off \in Int /\ R.off <= R.term /\ UpTo(doc, R.buf, R.off) /\ NoEof(doc, R.buf)
      BY <1>1, <1>3, RecoveredFacts
<1>8. FilesOK'
      BY <1>1, <1>2, <1>5 DEF TypeOK, FilesOK
<1>9. TypeOK'
  <2>1. lo' \in Layout /\ <<>> \in Seq(DOMAIN doc)
        BY <1>1, <1>2, ResetType DEF TypeOK
  <2> QED BY <1>1, <1>2, <1>3, <1>4, <1>5, <1>6, <1>8, <2>1 DEF TypeOK
<1>10. R' = R
      BY <1>2 DEF Recovered
<1> HIDE DEF R
<1>11. FileInv'
      BY <1>1, <1>2, <1>6, <1>7 DEF FileInv
<1>12. \A q \in Nat : <<q>> \in DOMAIN pg' => PageDone(q, BufferOf(<<q + 1>>))'
      BY <1>1, <1>2 DEF SubRun, PageDone, BufferOf
<1>13. ReadInv'
  <2>1. Covers(doc, R, <<>>, R.buf, R.off)
        BY <1>3, <1>7, CoversBegin
  <2>2. mgr'.max = NoMax
        BY <1>2 DEF FreshMgr
  <2>3. Recovered(<<cur>>)' = R
        BY <1>2, <1>10 DEF R, Recovered
  <2> QED BY <1>2, <1>6, <1>7, <2>1, <2>2, <2>3 DEF ReadInv
<1>14. SubRun'
      BY <1>1, <1>2, <1>3, <1>6, <1>7, <1>12, <1>13 DEF SubRun
<1> QED BY <1>1, <1>2, <1>9, <1>11, <1>14 DEF IInv, SubPageInv

\* Steps that only touch the call and st leave the parser and the files alone.
LEMMA CallStep ==
  ASSUME IInv, st' \in {"idle", "display"}, (call \in CallType)', mode = "paginate" => call' = NoCall,
         mode # "pb" => st' = "idle", st' = "display" => cur >= 0, st # "draw",
         UNCHANGED <<mode, doc, size, widTab, parser, lo, mgr, pg, cur, sub, newPage, shown,
                     content, out, back>>
  PROVE  IInv'
<1>1. /\ FileType' = FileType /\ ParserType' = ParserType /\ MgrType' = MgrType
      BY DEF FileType, ParserType, MgrType, Offset, Glyphs, Eof
<1>2. FilesOK'
      BY <1>1 DEF IInv, TypeOK, FilesOK
<1>3. TypeOK'
      BY <1>1, <1>2 DEF IInv, TypeOK
<1>4. FileInv'
      BY DEF IInv, SubPageInv, FileInv
<1>5. mode = "paginate" => FirstRun'
  <2> SUFFICES ASSUME mode = "paginate" PROVE FirstRun'
      OBVIOUS
  <2>1. FirstRun /\ st' = "idle" /\ st # "draw"
        BY DEF IInv, SubPageInv
  <2>2. \A p \in 0 .. mgr'.num - 1 : PageDone(p, BufferAfter(p))'
        BY <2>1 DEF FirstRun, PageDone, BufferAfter
  <2> QED BY <2>1, <2>2 DEF FirstRun
<1>6. mode = "pb" => SubRun'
  <2> SUFFICES ASSUME mode = "pb" PROVE SubRun'
      OBVIOUS
  <2>1. SubRun
        BY DEF IInv, SubPageInv
  <2>2. \A p \in Nat : <<p>> \in DOMAIN pg' => PageDone(p, BufferOf(<<p + 1>>))'
        BY <2>1 DEF SubRun, PageDone, BufferOf
  <2>3. cur' >= 0 /\ ~back' => ReadInv'
        BY <2>1 DEF SubRun, ReadInv, Recovered
  <2> QED BY <2>1, <2>2, <2>3 DEF SubRun
<1>7. mode' = "dead" => st' = "idle" /\ cur' = -1
      BY DEF IInv, SubPageInv
<1> QED BY <1>3, <1>4, <1>5, <1>6, <1>7 DEF IInv, SubPageInv

LEMMA GetPageStep == ASSUME IInv, NEW n \in 0 .. MaxSub, GetPage(n) PROVE IInv'
<1>1. n \in Nat
      BY PageBasedAssumption DEF PageBasedAssumption, NoMax
<1>2. call' \in CallType
      BY <1>1 DEF GetPage, CallType
<1>3. CallType' = CallType
      BY DEF CallType
<1> QED BY <1>2, <1>3, CallStep DEF GetPage, input, history

LEMMA AheadLastStep == ASSUME IInv, AheadLast PROVE IInv'
<1>1. call' \in CallType /\ CallType' = CallType
      BY DEF IInv, TypeOK, AheadLast, CallType
<1>2. mode = "pb" /\ cur >= 0
  <2>1. st = "shown" /\ call.fwd
        BY DEF AheadLast
  <2>2. mode # "paginate"
        BY <2>1 DEF IInv, SubPageInv, FirstRun, NoCall
  <2>3. mode # "dead"
        BY <2>1 DEF IInv, SubPageInv
  <2>4. mode = "pb"
        BY <2>2, <2>3 DEF IInv, TypeOK
  <2> QED BY <2>1, <2>4 DEF IInv, SubPageInv, SubRun
<1> QED BY <1>1, <1>2, CallStep DEF AheadLast, input, history

LEMMA ReturnStep == ASSUME IInv, Return PROVE IInv'
<1>1. call' \in CallType /\ CallType' = CallType
      BY DEF Return, CallType, NoCall
<1> QED BY <1>1, CallStep DEF Return, input, history

LEMMA DieStep == ASSUME IInv, NEW g \in Glyphs, Die(g) PROVE IInv'
<1>1. /\ mode' = "dead" /\ st' = "idle" /\ cur' = -1
      /\ UNCHANGED <<doc, size, widTab, parser, lo, mgr, pg, call, sub, newPage, shown,
                     content, out, back>>
      BY DEF Die, input, history
<1>2. /\ FileType' = FileType /\ ParserType' = ParserType /\ MgrType' = MgrType
      /\ CallType' = CallType
      BY <1>1 DEF FileType, ParserType, MgrType, CallType, Offset, Glyphs, Eof
<1>3. FilesOK'
      BY <1>1, <1>2 DEF IInv, TypeOK, FilesOK
<1>4. TypeOK'
      BY <1>1, <1>2, <1>3 DEF IInv, TypeOK
<1>5. FileInv'
      BY <1>1 DEF IInv, SubPageInv, FileInv
<1> QED BY <1>1, <1>4, <1>5 DEF IInv, SubPageInv

\* A sub-page is begun or restored.
LEMMA SubRenderStep ==
  ASSUME IInv, mode = "pb", cur >= 0, NEW s \in Nat, Render(s),
         mgr' \in MgrType, mgr'.num = mgr.num, mgr'.max = mgr.max, call' \in CallType
  PROVE  IInv'
<1>1. TypeOK /\ FileInv /\ SubRun
      BY DEF IInv, SubPageInv
<1>2. /\ sub' = s /\ newPage' = (s = mgr.num) /\ st' = "draw" /\ shown' = <<>>
      /\ UNCHANGED <<mode, doc, size, widTab, cur, out>>
      BY DEF Render, input
<1>3. cur \in Nat /\ Len(doc) \in Nat /\ doc \in Seq(Token)
      BY <1>1, DocIs DEF TypeOK
<1>4. /\ FileType' = FileType /\ ParserType' = ParserType /\ MgrType' = MgrType
      /\ CallType' = CallType
      BY <1>2 DEF FileType, ParserType, MgrType, CallType, Offset, Glyphs, Eof
<1>5. <<>> \in Seq(DOMAIN doc) /\ newPage' \in BOOLEAN
      BY <1>2
<1>6. CASE s = mgr.num
  <2> DEFINE F == <<cur, s>>
  <2>1. StartPage(s) /\ File(s) = F
        BY <1>6 DEF Render, File
  <2>2. /\ FilesOK' /\ FileInv' /\ (parser \in ParserType)' /\ lo' = lo /\ back' = back
        /\ parser'.off = parser.off /\ parser'.buf = parser.buf
        /\ parser'.term = parser.term /\ parser'.held = parser.held
        /\ DOMAIN pg' = DOMAIN pg \cup {F}
        /\ pg'[F].off = parser.off
        /\ \A f \in DOMAIN pg : f # F => pg'[f] = pg[f] /\ content'[f] = content[f]
        BY <1>1, <1>2, <2>1, StartPageFacts
  <2>3. TypeOK'
        BY <1>1, <1>2, <1>4, <1>5, <2>2 DEF TypeOK
  <2>4. \A p : <<p>> # F
        BY Names
  <2> HIDE DEF F
  <2>5. \A p : <<p>> \in DOMAIN pg' <=> <<p>> \in DOMAIN pg
        BY <2>2, <2>4
  <2>6. \A p : <<p>> \in DOMAIN pg => pg'[<<p>>] = pg[<<p>>] /\ content'[<<p>>] = content[<<p>>]
        BY <2>2, <2>4
  <2>7. ASSUME NEW p \in Nat, <<p>> \in DOMAIN pg' PROVE PageDone(p, BufferOf(<<p + 1>>))'
    <3>1. PageDone(p, BufferOf(<<p + 1>>))
          BY <1>1, <2>5, <2>7 DEF SubRun
    <3>2. BufferOf(<<p + 1>>)' = BufferOf(<<p + 1>>)
          BY <2>5, <2>6 DEF BufferOf
    <3> QED BY <1>2, <2>5, <2>6, <2>7, <3>1, <3>2 DEF PageDone
  <2>8. Recovered(<<cur>>)' = Recovered(<<cur>>)
        BY <1>2, <2>5, <2>6 DEF Recovered
  <2>9. ~back' => ReadInv'
        BY <1>1, <1>2, <2>2, <2>8 DEF SubRun, ReadInv
  <2>10. SubRun'
    <3>1. <<cur, sub>>' \in DOMAIN pg' /\ pg'[<<cur, sub>>'].off <= parser'.off
      <4>1. parser.off \in Int
            BY <1>1, ParserTypes
      <4> QED BY <1>2, <2>2, <4>1 DEF F
    <3> QED BY <1>1, <1>2, <1>6, <2>2, <2>7, <2>9, <3>1 DEF SubRun
  <2> QED BY <1>2, <2>2, <2>3, <2>10 DEF IInv, SubPageInv
<1>7. CASE s # mgr.num
  <2> DEFINE F == <<cur, s>>
             R == Recovered(F)
  <2>1. /\ parser' = Restored(F) /\ lo' = Reset(lo) /\ back' = TRUE
        /\ UNCHANGED <<pg, content>>
        BY <1>7 DEF Render, RestorePage, LayoutReset
  <2>2. /\ parser' \in ParserType
        /\ parser'.off = R.off /\ parser'.buf = R.buf /\ parser'.term = R.term /\ parser'.held = 0
        BY <1>1, <2>1, RestoredFacts
  <2>3. R.off <= R.term /\ UpTo(doc, R.buf, R.off)
        BY <1>1, RecoveredFacts
  <2>4. FilesOK'
        BY <1>1, <1>2, <1>4, <2>1 DEF TypeOK, FilesOK
  <2>5. TypeOK'
    <3>1. lo' \in Layout
          BY <1>1, <2>1, ResetType DEF TypeOK
    <3> QED BY <1>1, <1>2, <1>4, <1>5, <2>1, <2>2, <2>4, <3>1 DEF TypeOK
  <2> HIDE DEF R
  <2>6. FileInv'
        BY <1>1, <1>2, <2>1, <2>2, <2>3 DEF FileInv
  <2>7. \A p \in Nat : <<p>> \in DOMAIN pg' => PageDone(p, BufferOf(<<p + 1>>))'
        BY <1>1, <1>2, <2>1 DEF SubRun, PageDone, BufferOf
  <2>8. SubRun'
    <3>1. ~newPage' /\ sub' # mgr'.num /\ cur' >= 0 /\ back' = TRUE
          BY <1>2, <1>7, <2>1
    <3>2. parser'.off <= parser'.term /\ parser'.held # 1
          BY <2>2, <2>3
    <3> QED BY <2>7, <3>1, <3>2 DEF SubRun
  <2> QED BY <1>2, <2>5, <2>6, <2>8 DEF IInv, SubPageInv
<1> QED BY <1>6, <1>7

\* Whoever displays is past the first run and has a page.
LEMMA Displays ==
  ASSUME IInv, st \in {"display", "shown"}, st = "shown" => call.fwd
  PROVE  mode = "pb" /\ cur >= 0
<1>1. mode # "paginate"
      BY DEF IInv, SubPageInv, FirstRun, NoCall
<1>2. mode # "dead"
      BY DEF IInv, SubPageInv
<1>3. mode = "pb"
      BY <1>1, <1>2 DEF IInv, TypeOK
<1> QED BY <1>3 DEF IInv, SubPageInv, SubRun

LEMMA DisplayPageStep == ASSUME IInv, DisplayPage PROVE IInv'
<1>1. mode = "pb" /\ cur >= 0
      BY Displays DEF DisplayPage
<1>2. /\ Render(call.n) /\ call.n \in Nat /\ mgr' \in MgrType /\ call' \in CallType
      /\ mgr'.num = mgr.num /\ mgr'.max = mgr.max
      BY ParserTypes DEF IInv, TypeOK, DisplayPage
<1> QED BY <1>1, <1>2, SubRenderStep

LEMMA DisplayAheadStep == ASSUME IInv, DisplayAhead PROVE IInv'
<1>1. mode = "pb" /\ cur >= 0
      BY Displays DEF DisplayAhead
<1>2. mgr.num \in Nat /\ call \in CallType
      BY ParserTypes DEF IInv, TypeOK
<1>3. /\ Render(mgr.num) /\ mgr' \in MgrType /\ call' \in CallType
      /\ mgr'.num = mgr.num /\ mgr'.max = mgr.max
      BY <1>2 DEF IInv, TypeOK, DisplayAhead, CallType
<1> QED BY <1>1, <1>2, <1>3, SubRenderStep

LEMMA AheadLoopStep == ASSUME IInv, AheadLoop PROVE IInv'
<1>1. mode = "pb" /\ cur >= 0
      BY Displays DEF AheadLoop
<1>2. mgr.cur \in Nat /\ call \in CallType /\ mgr \in MgrType
      BY ParserTypes DEF IInv, TypeOK
<1>3. NextPageNum \in Nat
      BY <1>2 DEF NextPageNum
<1>4. /\ Render(NextPageNum) /\ mgr' \in MgrType /\ call' \in CallType
      /\ mgr'.num = mgr.num /\ mgr'.max = mgr.max
      BY <1>2, <1>3 DEF AheadLoop, CallType, MgrType
<1> QED BY <1>1, <1>3, <1>4, SubRenderStep

-----------------------------------------------------------------------------
(* Reading and drawing.                                                     *)

LEMMA CanRead == ASSUME IInv, FillBuffer PROVE MayRead
<1>1. TypeOK /\ st = "draw"
      BY DEF IInv, FillBuffer
<1>2. parser.off \in 0 .. Len(doc) /\ parser.term \in 0 .. Len(doc) /\ Len(doc) \in Nat
      BY <1>1, ParserTypes, DocIs
<1>3. CASE mode = "paginate"
  <2>1. ReadEnd = Len(doc) /\ parser.held = 0
        BY <1>3 DEF ReadEnd, IInv, SubPageInv, FirstRun
  <2> QED BY <1>2, <2>1 DEF MayRead
<1>4. CASE mode = "pb"
  <2>1. ReadEnd = parser.term /\ SubRun
        BY <1>4 DEF ReadEnd, IInv, SubPageInv
  <2> QED BY <1>2, <1>4, <2>1 DEF MayRead, SubRun
<1>5. mode # "dead"
      BY <1>1 DEF IInv, SubPageInv
<1> QED BY <1>1, <1>3, <1>4, <1>5 DEF TypeOK

\* What follows from what was read, for a text that was shown before.
LEMMA FillCovers ==
  ASSUME TypeOK, MayRead, parser.buf = <<>>, NEW f, f.off \in Int, NEW s \in Seq(DOMAIN doc),
         Covers(doc, f, s, parser.buf, parser.off)
  PROVE  Covers(doc, f, s, Filled.glyphs, Filled.off)
<1> DEFINE g == Filled.glyphs
           o2 == Filled.off
           o == parser.off
<1>1. ReadFacts(Filled)
      BY FilledFacts
<1>2. o \in Int /\ ReadEnd \in Int /\ DOMAIN doc = 1 .. Len(doc) /\ Glyphs \subseteq Int
  <2>1. Len(doc) \in Nat /\ DOMAIN doc = 1 .. Len(doc) /\ parser.off \in 0 .. Len(doc)
        /\ Glyphs = 1 .. Len(doc) + 1
        BY ParserTypes, DocIs
  <2> QED BY <2>1 DEF MayRead
<1>3. /\ o2 \in o .. ReadEnd /\ g \in Seq(Glyphs) /\ \A i \in DOMAIN g : o < g[i]
      /\ Seen(doc, g) = Ahead(doc, o, o2)
      BY <1>1 DEF ReadFacts
<1>4. o2 \in Int /\ o <= o2
      BY <1>2, <1>3
<1>5. \A i \in DOMAIN g : g[i] \in Int
      BY <1>2, <1>3, LenProperties, ElementOfSeq
<1>6. DOMAIN doc \subseteq Int
      BY <1>2
<1>7. Covers(doc, f, s, <<>>, o)
      OBVIOUS
<1> HIDE DEF g, o, o2
<1>8. Covers(doc, f, s, g, o2)
      BY <1>2, <1>3, <1>4, <1>5, <1>6, <1>7, CoversFill
<1> QED BY <1>8 DEF g, o2

LEMMA FillStep == ASSUME IInv, FillBuffer PROVE IInv'
<1> DEFINE b == Filled
<1>1. TypeOK /\ FileInv /\ st = "draw" /\ parser.buf = <<>> /\ MayRead
      BY CanRead DEF IInv, SubPageInv, FillBuffer
<1>2. /\ parser'.off = b.off /\ parser'.buf = b.glyphs /\ parser'.resume = b.resume
      /\ parser'.term = parser.term /\ parser'.freed = FALSE /\ parser'.held = Held
      /\ parser' = [off |-> b.off, buf |-> b.glyphs, resume |-> b.resume,
                    term |-> parser.term, freed |-> FALSE, held |-> Held]
      /\ UNCHANGED <<mode, doc, size, widTab, mgr, pg, cur, call, sub, newPage, st, shown,
                     content, out, back>>
      BY DEF FillBuffer, Held, input, frame, history
<1>3. lo' \in {lo, [lo EXCEPT !.indent = Indent]}
      BY DEF FillBuffer
<1>4. /\ ReadFacts(b)
      /\ AtTermOff => b.off = parser.off /\ Held = parser.held /\ b.glyphs = <<Eof>>
      BY <1>1, FilledFacts
<1>5. /\ parser.off \in 0 .. Len(doc) /\ parser.term \in 0 .. Len(doc) /\ Len(doc) \in Nat
      /\ ReadEnd \in 0 .. Len(doc) /\ Eof = Len(doc) + 1
      BY <1>1, ParserTypes, DocIs DEF MayRead
<1> HIDE DEF b
<1>6. b.off \in parser.off .. ReadEnd
      BY <1>4 DEF ReadFacts
<1>7. b.off \in Offset /\ parser.off <= b.off /\ b.off <= ReadEnd /\ b.off \in Int
      BY <1>5, <1>6 DEF Offset
<1>8. /\ FileType' = FileType /\ ParserType' = ParserType /\ MgrType' = MgrType
      /\ CallType' = CallType
      BY <1>2 DEF FileType, ParserType, MgrType, CallType, Offset, Glyphs, Eof
<1>9. parser' \in ParserType
      BY <1>2, <1>4, <1>5, <1>7 DEF ReadFacts, ParserType, Offset
<1>10. lo' \in Layout
  <2>1. lo \in Layout /\ Indent \in Int
        BY <1>1, PageBasedAssumption DEF PageBasedAssumption, TypeOK
  <2>2. [lo EXCEPT !.indent = Indent] \in Layout
        BY <2>1 DEF Layout
  <2> QED BY <1>3, <2>1, <2>2
<1>11. FilesOK'
      BY <1>1, <1>2, <1>8 DEF TypeOK, FilesOK
<1>12. TypeOK'
      BY <1>1, <1>2, <1>8, <1>9, <1>10, <1>11 DEF TypeOK
<1>13. FileInv'
      BY <1>1, <1>2, <1>4 DEF FileInv, ReadFacts
<1>14. mode = "paginate" => FirstRun'
  <2> SUFFICES ASSUME mode = "paginate" PROVE FirstRun'
      OBVIOUS
  <2>1. FirstRun
        BY DEF IInv, SubPageInv
  <2>2. /\ NoEof(doc, b.glyphs) \/ (b.glyphs = <<Eof>> /\ b.off = Len(doc))
        /\ b.glyphs # <<>> => EndsIn(doc, b.off, b.glyphs)
        BY <1>4 DEF ReadFacts
  <2>3. parser'.held = 0
        BY <1>2, <1>4 DEF ReadFacts
  <2>4. mgr.num \in Nat /\ sub = mgr.num /\ newPage
        /\ DOMAIN pg = {<<p>> : p \in 0 .. mgr.num}
        BY <1>1, <2>1, ParserTypes DEF FirstRun
  <2>5. ASSUME NEW p \in 0 .. mgr.num - 1 PROVE PageDone(p, BufferAfter(p))'
    <3>1. p + 1 \in 0 .. mgr.num
          BY <2>4
    <3>2. <<p + 1>> \in DOMAIN pg
          BY <2>4, <3>1
    <3>3. BufferAfter(p)' = BufferAfter(p)
          BY <1>2, <3>2 DEF BufferAfter
    <3>4. PageDone(p, BufferAfter(p))
          BY <2>1 DEF FirstRun
    <3> QED BY <1>2, <3>3, <3>4 DEF PageDone
  <2>6. Covers(doc, pg[<<sub>>], content[<<sub>>], b.glyphs, b.off)
    <3>1. <<sub>> \in DOMAIN pg
          BY <2>4
    <3>2. pg[<<sub>>].off \in Int /\ content[<<sub>>] \in Seq(DOMAIN doc)
          BY <1>1, <3>1, FileTypes
    <3>3. Covers(doc, pg[<<sub>>], content[<<sub>>], parser.buf, parser.off)
          BY <1>1, <2>1 DEF FirstRun
    <3> QED BY <1>1, <3>2, <3>3, FillCovers DEF b
  <2>8. mgr.max = NoMax
        BY <1>1, <2>1 DEF FirstRun
  <2>9. Eof' = Eof
        BY <1>2 DEF Eof
  <2> QED BY <1>1, <1>2, <2>1, <2>2, <2>3, <2>4, <2>5, <2>6, <2>8, <2>9 DEF FirstRun
<1>15. mode = "pb" => SubRun'
  <2> SUFFICES ASSUME mode = "pb" PROVE SubRun'
      OBVIOUS
  <2>1. SubRun /\ ReadEnd = parser.term /\ parser.off \in Int /\ parser.held \in {0, 1}
        BY <1>1, ParserTypes DEF IInv, SubPageInv, ReadEnd
  <2>2. \A p \in Nat : <<p>> \in DOMAIN pg' => PageDone(p, BufferOf(<<p + 1>>))'
        BY <1>2, <2>1 DEF SubRun, PageDone, BufferOf
  <2>3. parser'.off <= parser'.term
        /\ (parser'.held = 1 => parser'.off + 1 = parser'.term /\ doc[parser'.term] \notin Tag)
        BY <1>2, <1>4, <1>7, <2>1 DEF ReadFacts
  <2>4. ASSUME newPage
        PROVE  <<cur, sub>> \in DOMAIN pg /\ pg[<<cur, sub>>].off <= parser'.off
    <3>1. <<cur, sub>> \in DOMAIN pg /\ pg[<<cur, sub>>].off <= parser.off
          BY <1>1, <2>1, <2>4 DEF SubRun
    <3>2. pg[<<cur, sub>>].off \in Int
          BY <1>1, <3>1, FileTypes
    <3> QED BY <1>2, <1>7, <2>1, <3>1, <3>2
  <2>5. ASSUME cur >= 0, ~back PROVE ReadInv'
    <3> DEFINE R == Recovered(<<cur>>)
    <3>1. ReadInv /\ R' = R
          BY <1>2, <2>1, <2>5 DEF SubRun, Recovered
    <3>2. R.off \in Int /\ out \in Seq(DOMAIN doc)
          BY <1>1, RecoveredFacts DEF TypeOK
    <3> HIDE DEF R
    <3>3. Covers(doc, R, out, parser.buf, parser.off) /\ parser.term = R.term
          BY <3>1 DEF ReadInv, R
    <3>4. Covers(doc, R, out, b.glyphs, b.off)
          BY <1>1, <3>2, <3>3, FillCovers DEF b
    <3>5. NoEof(doc, b.glyphs) \/ b.off + Held >= parser.term
          BY <1>4, <2>1 DEF ReadFacts
    <3>6. ASSUME mgr.max # NoMax
          PROVE  /\ parser'.off + parser'.held >= parser'.term
                 /\ \A i \in DOMAIN parser'.buf : parser'.buf[i] = Len(doc) + 1
      <4>1. parser.off + parser.held >= parser.term
            BY <3>1, <3>6 DEF ReadInv
      <4>2. AtTermOff
            BY <2>1, <4>1 DEF AtTermOff
      <4>3. b.off = parser.off /\ Held = parser.held /\ b.glyphs = <<Len(doc) + 1>>
            BY <1>4, <1>5, <4>2
      <4> QED BY <1>2, <4>1, <4>3
    <3>7. Recovered(<<cur>>)' = R
          BY <3>1 DEF R
    <3> QED BY <1>2, <3>3, <3>4, <3>5, <3>6, <3>7 DEF ReadInv
  <2> QED BY <1>1, <1>2, <2>1, <2>2, <2>3, <2>4, <2>5 DEF SubRun
<1>16. mode # "dead"
      BY <1>1 DEF IInv, SubPageInv
<1> QED BY <1>2, <1>12, <1>13, <1>14, <1>15, <1>16 DEF IInv, SubPageInv

\* A glyph at the head of the buffer.
LEMMA TakesFacts ==
  ASSUME TypeOK, FileInv, NEW g, TakesGlyph(g)
  PROVE  /\ parser.buf # <<>> /\ g = Head(parser.buf) /\ g \in 1 .. Len(doc) + 1
         /\ Taken \in ParserType /\ Taken.off = parser.off /\ Taken.buf = Tail(parser.buf)
         /\ Taken.term = parser.term /\ Taken.held = parser.held
         /\ UpTo(doc, Tail(parser.buf), parser.off)
         /\ g = Eof => Tail(parser.buf) = <<>>
         /\ g # Eof => g \in DOMAIN doc /\ g <= parser.off
         /\ NoEof(doc, parser.buf) => NoEof(doc, Tail(parser.buf)) /\ g # Eof
<1>1. doc \in Seq(Token) /\ Len(doc) \in Nat /\ DOMAIN doc = 1 .. Len(doc) /\ Eof = Len(doc) + 1
      BY DocIs
<1>2. /\ parser.buf \in Seq(Glyphs) /\ Glyphs = 1 .. Len(doc) + 1
      /\ parser.off \in Int /\ parser \in ParserType
      BY ParserTypes DEF TypeOK
<1>3. parser.buf # <<>> /\ g = Head(parser.buf)
      BY DEF TakesGlyph
<1>4. g \in 1 .. Len(doc) + 1 /\ Tail(parser.buf) \in Seq(Glyphs)
      BY <1>2, <1>3, TakenFacts
<1>5. UpTo(doc, parser.buf, parser.off)
      BY DEF FileInv
<1>6. /\ UpTo(doc, Tail(parser.buf), parser.off)
      /\ g = Len(doc) + 1 => Tail(parser.buf) = <<>>
      /\ g # Len(doc) + 1 => g <= parser.off
      /\ NoEof(doc, parser.buf) => NoEof(doc, Tail(parser.buf)) /\ g # Len(doc) + 1
      BY <1>1, <1>2, <1>3, <1>5, TakeInOrder
<1>7. /\ Taken \in ParserType /\ Taken.off = parser.off /\ Taken.buf = Tail(parser.buf)
      /\ Taken.term = parser.term /\ Taken.held = parser.held
      BY <1>2, <1>4 DEF Taken, ParserType
<1>8. g # Eof => g \in DOMAIN doc
      BY <1>1, <1>4
<1> QED BY <1>1, <1>3, <1>4, <1>6, <1>7, <1>8

\* It is shown: the text behind a state f goes on.
LEMMA TakeCovers ==
  ASSUME TypeOK, FileInv, NEW g, TakesGlyph(g), g # Eof, NEW f, NEW s \in Seq(DOMAIN doc),
         Covers(doc, f, s, parser.buf, parser.off)
  PROVE  /\ Append(s, g) \in Seq(DOMAIN doc)
         /\ Covers(doc, f, Append(s, g), Tail(parser.buf), parser.off)
<1>1. /\ doc \in Seq(Token) /\ Eof = Len(doc) + 1 /\ parser.buf \in Seq(1 .. Len(doc) + 1)
      /\ parser.off \in Int
      BY DocIs, ParserTypes
<1>2. parser.buf # <<>> /\ g = Head(parser.buf) /\ UpTo(doc, parser.buf, parser.off)
      BY DEF TakesGlyph, FileInv
<1> QED BY <1>1, <1>2, CoversTake

\* Eof shows nothing.
LEMMA EofCovers ==
  ASSUME TypeOK, FileInv, TakesGlyph(Eof), NEW f, NEW s,
         Covers(doc, f, s, parser.buf, parser.off)
  PROVE  Covers(doc, f, s, <<>>, parser.off)
<1>1. /\ Tail(parser.buf) = <<>> /\ parser.buf # <<>> /\ Eof = Head(parser.buf)
      BY TakesFacts
<1>2. /\ DOMAIN doc = 1 .. Len(doc) /\ Len(doc) \in Nat /\ Eof = Len(doc) + 1
      /\ parser.buf \in Seq(Glyphs)
      BY DocIs, ParserTypes
<1>3. /\ Len(parser.buf) \in Nat /\ DOMAIN parser.buf = 1 .. Len(parser.buf)
      /\ DOMAIN Tail(parser.buf) = 1 .. Len(parser.buf) - 1 /\ Eof = parser.buf[1]
      BY <1>1, <1>2, TakenFacts
<1>4. \A i \in DOMAIN parser.buf : i = 1
  <2>1. Len(parser.buf) - 1 = 0
    <3>1. Len(Tail(parser.buf)) = 0 /\ Len(Tail(parser.buf)) = Len(parser.buf) - 1
          BY <1>1, <1>2, TakenFacts
    <3> QED BY <3>1
  <2>2. Len(parser.buf) = 1
        BY <1>3, <2>1
  <2>3. DOMAIN parser.buf = 1 .. 1
        BY <1>3, <2>2
  <2> QED BY <2>3
<1>5. Seen(doc, parser.buf) = {}
      BY <1>2, <1>3, <1>4 DEF Seen
<1> QED BY <1>5, EmptyText DEF Covers

LEMMA PlaceType == ASSUME TypeOK, NEW g PROVE Place(g).lo \in Layout
<1>1. lo \in Layout /\ widTab \in Int /\ size \in Int
      BY PageBasedAssumption DEF PageBasedAssumption, TypeOK
<1> QED BY <1>1, NewLineType, GetCharPosType DEF Place

\* The rest of a buffer still ends with the last character read.
LEMMA EndsInTail ==
  ASSUME NEW d, NEW off, NEW S, NEW buf \in Seq(S), buf # <<>>, Tail(buf) # <<>>,
         EndsIn(d, off, buf)
  PROVE  EndsIn(d, off, Tail(buf))
<1> DEFINE n == Len(buf)
           t == Tail(buf)
<1>1. /\ n \in Nat /\ n > 0 /\ t \in Seq(S) /\ Len(t) = n - 1
      /\ \A i \in 1 .. n - 1 : t[i] = buf[i + 1]
      BY TakenFacts
<1>2. Len(t) > 0
      BY <1>1, EmptySeq, LenProperties
<1> HIDE DEF n, t
<1>3. n - 1 \in 1 .. n - 1 /\ (n - 1) + 1 = n
      BY <1>1, <1>2
<1>4. t[Len(t)] = buf[n]
      BY <1>1, <1>3
<1> QED BY <1>4 DEF EndsIn, n, t

LEMMA DrawGlyphStep == ASSUME IInv, NEW g \in Glyphs, DrawGlyph(g) PROVE IInv'
<1> DEFINE F == File(sub)
           t == Tail(parser.buf)
<1>1. /\ TypeOK /\ FileInv /\ st = "draw" /\ TakesGlyph(g) /\ g # Eof
      /\ lo' = Place(g).lo /\ parser' = Taken /\ shown' = Append(shown, g)
      /\ UNCHANGED <<mode, doc, size, widTab, mgr, pg, cur, call, sub, newPage, st, back>>
      BY DEF IInv, SubPageInv, DrawGlyph, TakesGlyph, input, frame
<1>2. \/ newPage /\ content' = [content EXCEPT ![F] = Append(@, g)] /\ out' = Append(out, g)
      \/ ~newPage /\ content' = content /\ out' = out
      BY DEF DrawGlyph
<1>3. /\ parser.buf # <<>> /\ g = Head(parser.buf) /\ g \in DOMAIN doc
      /\ parser' \in ParserType /\ parser'.off = parser.off /\ parser'.buf = t
      /\ parser'.term = parser.term /\ parser'.held = parser.held
      /\ UpTo(doc, t, parser.off)
      /\ NoEof(doc, parser.buf) => NoEof(doc, t)
      BY <1>1, TakesFacts
<1>4. /\ FileType' = FileType /\ ParserType' = ParserType /\ MgrType' = MgrType
      /\ CallType' = CallType
      BY <1>1 DEF FileType, ParserType, MgrType, CallType, Offset, Glyphs, Eof
<1>5. DOMAIN pg = DOMAIN content /\ \A f \in DOMAIN pg : content[f] \in Seq(DOMAIN doc)
      BY <1>1 DEF TypeOK, FilesOK
<1>6. /\ DOMAIN content' = DOMAIN content
      /\ \A f \in DOMAIN pg : f # F => content'[f] = content[f]
      /\ newPage /\ F \in DOMAIN pg => content'[F] = Append(content[F], g)
  <2> HIDE DEF F
  <2> QED BY <1>2, <1>5
<1>7. \A f \in DOMAIN pg : content'[f] \in Seq(DOMAIN doc)
  <2>1. CASE newPage
    <3>1. F \in DOMAIN pg => content'[F] \in Seq(DOMAIN doc)
          BY <1>3, <1>5, <1>6, <2>1, AppendProperties
    <3> QED BY <1>5, <1>6, <3>1
  <2>2. CASE ~newPage
        BY <1>2, <1>5, <2>2
  <2> QED BY <2>1, <2>2
<1>8. FilesOK'
      BY <1>1, <1>4, <1>5, <1>6, <1>7 DEF TypeOK, FilesOK
<1>9. TypeOK'
  <2>1. shown' \in Seq(DOMAIN doc) /\ out' \in Seq(DOMAIN doc)
    <3>1. shown \in Seq(DOMAIN doc) /\ out \in Seq(DOMAIN doc)
          BY <1>1 DEF TypeOK
    <3>2. Append(shown, g) \in Seq(DOMAIN doc) /\ Append(out, g) \in Seq(DOMAIN doc)
          BY <1>3, <3>1, AppendProperties
    <3> QED BY <1>1, <1>2, <3>1, <3>2
  <2>2. lo' \in Layout
        BY <1>1, PlaceType
  <2> QED BY <1>1, <1>3, <1>4, <1>8, <2>1, <2>2 DEF TypeOK
<1>10. FileInv'
      BY <1>1, <1>3 DEF FileInv
<1>11. mode = "paginate" => FirstRun'
  <2> SUFFICES ASSUME mode = "paginate" PROVE FirstRun'
      OBVIOUS
  <2>1. FirstRun /\ F = <<sub>>
        BY DEF IInv, SubPageInv, File
  <2>2. mgr.num \in Nat /\ sub = mgr.num /\ newPage
        /\ DOMAIN pg = {<<p>> : p \in 0 .. mgr.num} /\ mgr.max = NoMax
        BY <1>1, <2>1, ParserTypes DEF FirstRun
  <2>3. F \in DOMAIN pg
        BY <2>1, <2>2
  <2>4. ASSUME NEW p \in 0 .. mgr.num - 1 PROVE PageDone(p, BufferAfter(p))'
    <3>1. p + 1 \in 0 .. mgr.num /\ p \in 0 .. mgr.num /\ p # mgr.num
          BY <2>2
    <3>2. <<p + 1>> \in DOMAIN pg /\ <<p>> \in DOMAIN pg /\ <<p>> # F
          BY <2>1, <2>2, <3>1, Names
    <3>3. BufferAfter(p)' = BufferAfter(p)
          BY <1>1, <3>2 DEF BufferAfter
    <3>4. PageDone(p, BufferAfter(p))
          BY <2>1 DEF FirstRun
    <3>5. content'[<<p>>] = content[<<p>>]
          BY <1>6, <3>2
    <3> QED BY <1>1, <3>3, <3>4, <3>5 DEF PageDone
  <2>5. Covers(doc, pg[F], content'[F], t, parser.off)
    <3>1. Covers(doc, pg[F], content[F], parser.buf, parser.off)
          BY <1>1, <2>1 DEF FirstRun
    <3> QED BY <1>1, <1>5, <1>6, <2>2, <2>3, <3>1, TakeCovers
  <2>6. NoEof(doc, parser.buf)
    <3>1. Head(<<Eof>>) = Eof
          OBVIOUS
    <3> QED BY <1>1, <1>3, <2>1, <3>1 DEF FirstRun
  <2>7. t # <<>> => EndsIn(doc, parser.off, t)
    <3>1. parser.buf \in Seq(Glyphs) /\ EndsIn(doc, parser.off, parser.buf)
          BY <1>1, <1>3, <2>1, ParserTypes DEF FirstRun
    <3> QED BY <1>3, <3>1, EndsInTail
  <2> QED BY <1>1, <1>3, <2>1, <2>2, <2>4, <2>5, <2>6, <2>7 DEF FirstRun
<1>12. mode = "pb" => SubRun'
  <2> SUFFICES ASSUME mode = "pb" PROVE SubRun'
      OBVIOUS
  <2>1. SubRun /\ F = <<cur, sub>>
        BY DEF IInv, SubPageInv, File
  <2>2. ASSUME NEW p \in Nat, <<p>> \in DOMAIN pg' PROVE PageDone(p, BufferOf(<<p + 1>>))'
    <3>1. content'[<<p>>] = content[<<p>>]
          BY <1>1, <1>6, <2>1, <2>2, Names
    <3>2. PageDone(p, BufferOf(<<p + 1>>)) /\ BufferOf(<<p + 1>>)' = BufferOf(<<p + 1>>)
          BY <1>1, <2>1, <2>2 DEF SubRun, BufferOf
    <3> QED BY <1>1, <3>1, <3>2 DEF PageDone
  <2>3. ASSUME cur >= 0, ~back PROVE ReadInv'
    <3> DEFINE R == Recovered(<<cur>>)
    <3>1. ReadInv /\ newPage
          BY <1>1, <2>1, <2>3 DEF SubRun
    <3>2. Recovered(<<cur>>)' = R
          BY <1>1 DEF Recovered
    <3>3. out \in Seq(DOMAIN doc) /\ Covers(doc, R, out, parser.buf, parser.off)
          BY <1>1, <3>1 DEF TypeOK, ReadInv
    <3>4. parser.term = R.term
          BY <3>1 DEF ReadInv
    <3> HIDE DEF R
    <3>5. Covers(doc, R, out', t, parser.off)
          BY <1>1, <1>2, <3>1, <3>3, TakeCovers
    <3>6. mgr.max = NoMax
      <4> SUFFICES ASSUME mgr.max # NoMax PROVE FALSE
          OBVIOUS
      <4>1. \A i \in DOMAIN parser.buf : parser.buf[i] = Len(doc) + 1
            BY <3>1 DEF ReadInv
      <4>2. 1 \in DOMAIN parser.buf /\ g = parser.buf[1]
            BY <1>1, <1>3, ParserTypes, TakenFacts
      <4>3. Eof = Len(doc) + 1
            BY <1>1, DocIs
      <4> QED BY <1>1, <4>1, <4>2, <4>3
    <3>7. NoEof(doc, t) \/ parser.off + parser.held >= parser.term
          BY <1>3, <3>1 DEF ReadInv
    <3> QED BY <1>1, <1>3, <3>2, <3>4, <3>5, <3>6, <3>7 DEF ReadInv
  <2> QED BY <1>1, <1>3, <2>1, <2>2, <2>3 DEF SubRun
<1>13. mode # "dead"
      BY <1>1 DEF IInv, SubPageInv
<1> QED BY <1>1, <1>9, <1>10, <1>11, <1>12, <1>13 DEF IInv, SubPageInv

\* A page ends, with what the parser has left.
LEMMA EndStep ==
  ASSUME IInv, st = "draw", st' = "shown", lo' \in Layout,
         NEW m \in MgrType, m.num = mgr.num, EndPage(m),
         UNCHANGED <<mode, doc, size, widTab, cur, call, sub, newPage, shown, content, out, back>>,
         parser' \in ParserType, parser'.off = parser.off, parser'.held = parser.held,
         parser'.term = parser.term, UpTo(doc, parser'.buf, parser.off),
         mode = "paginate" =>
           /\ EndsIn(doc, parser.off, parser'.buf) /\ NoEof(doc, parser'.buf)
           /\ Covers(doc, pg[<<sub>>], content[<<sub>>], parser'.buf, parser.off)
           /\ m.max # NoMax => parser'.buf = <<>>,
         mode = "pb" /\ ~back =>
           /\ Covers(doc, Recovered(<<cur>>), out, parser'.buf, parser.off)
           /\ NoEof(doc, parser'.buf) \/ parser.off + parser.held >= parser.term
           /\ m.max # NoMax => /\ parser.off + parser.held >= parser.term
                               /\ \A i \in DOMAIN parser'.buf : parser'.buf[i] = Len(doc) + 1
  PROVE  IInv'
<1> DEFINE F == File(sub)
<1>1. TypeOK /\ FileInv /\ mode # "dead"
      BY DEF IInv, SubPageInv
<1>2. /\ FileType' = FileType /\ ParserType' = ParserType /\ MgrType' = MgrType
      /\ CallType' = CallType
      BY DEF FileType, ParserType, MgrType, CallType, Offset, Glyphs, Eof
<1>3. mgr.num \in Nat
      BY <1>1, ParserTypes
<1>4. ASSUME mode = "paginate"
      PROVE  FirstRun /\ F = <<sub>> /\ sub = mgr.num /\ F \in DOMAIN pg /\ newPage
             /\ DOMAIN pg = {<<p>> : p \in 0 .. mgr.num} /\ pg[F].off <= parser.off
  <2>1. FirstRun /\ F = <<sub>>
        BY <1>4 DEF IInv, SubPageInv, File
  <2>2. /\ sub = mgr.num /\ newPage /\ DOMAIN pg = {<<p>> : p \in 0 .. mgr.num}
        /\ Covers(doc, pg[F], content[F], parser.buf, parser.off)
        BY <2>1 DEF FirstRun
  <2> QED BY <1>3, <2>1, <2>2 DEF Covers
<1>5. ASSUME mode = "pb"
      PROVE  SubRun /\ F = <<cur, sub>> /\ cur >= 0
             /\ (sub = mgr.num => F \in DOMAIN pg /\ pg[F].off <= parser.off)
      BY <1>5 DEF IInv, SubPageInv, SubRun, File
<1>6. sub = mgr.num => F \in DOMAIN pg /\ pg[F].off <= parser.off
      BY <1>1, <1>4, <1>5 DEF TypeOK
<1>7. /\ FilesOK' /\ (mgr \in MgrType)' /\ mgr'.max = m.max
      /\ mgr'.num = (IF sub = mgr.num THEN m.num + 1 ELSE m.num)
      /\ DOMAIN pg' = DOMAIN pg
      /\ \A f \in DOMAIN pg : /\ pg'[f].off = pg[f].off /\ pg'[f].buf = pg[f].buf
                              /\ f # F => pg'[f] = pg[f]
      /\ sub = mgr.num => pg'[F].done /\ pg'[F].term = parser.off
      /\ \A f \in DOMAIN pg' : UpTo(doc', pg'[f].buf, pg'[f].off)
      /\ \A p \in Nat : <<p>> \in DOMAIN pg' => NoEof(doc', pg'[<<p>>].buf)
      BY <1>1, <1>6, EndPageFacts
<1>8. TypeOK'
      BY <1>1, <1>2, <1>7 DEF TypeOK
<1>9. FileInv'
      BY <1>7 DEF FileInv
<1>10. mode = "paginate" => FirstRun'
  <2> SUFFICES ASSUME mode = "paginate" PROVE FirstRun'
      OBVIOUS
  <2> DEFINE n == mgr.num
  <2>1. /\ FirstRun /\ F = <<n>> /\ sub = n /\ F \in DOMAIN pg
        /\ DOMAIN pg = {<<p>> : p \in 0 .. n} /\ n \in Nat
        BY <1>3, <1>4
  <2>2. mgr'.num = n + 1 /\ (n + 1) - 1 = n
        BY <1>7, <2>1
  <2> HIDE DEF n
  <2>3. ASSUME NEW p \in 0 .. n PROVE PageDone(p, BufferAfter(p))'
    <3>1. CASE p = n
      <4>1. p + 1 \notin 0 .. n
            BY <2>1, <3>1
      <4>2. <<p + 1>> \notin DOMAIN pg'
            BY <1>7, <2>1, <4>1, Names
      <4>3. BufferAfter(p)' = parser'.buf
            BY <4>2 DEF BufferAfter
      <4>4. /\ pg'[F].done /\ pg'[F].term = parser.off
            /\ pg'[F].off = pg[F].off /\ pg'[F].buf = pg[F].buf
            BY <1>7, <2>1 DEF n
      <4>5. Covers(doc, pg[F], content[F], parser'.buf, parser.off) /\ EndsIn(doc, parser.off, parser'.buf)
            BY <2>1
      <4>6. Covers(doc, pg'[F], content[F], parser'.buf, parser.off)
            BY <4>4, <4>5 DEF Covers
      <4>7. Ended(doc, pg'[F], content[F], parser'.buf)
            BY <4>4, <4>5, <4>6 DEF Ended
      <4> QED BY <2>1, <3>1, <4>3, <4>7 DEF PageDone
    <3>2. CASE p # n
      <4>1. p \in 0 .. n - 1 /\ p + 1 \in 0 .. n
            BY <2>1, <3>2
      <4>2. <<p + 1>> \in DOMAIN pg /\ <<p>> \in DOMAIN pg /\ <<p>> # F
            BY <2>1, <3>2, <4>1, Names
      <4>3. BufferAfter(p)' = BufferAfter(p) /\ pg'[<<p>>] = pg[<<p>>]
            BY <1>7, <4>2 DEF BufferAfter
      <4>4. PageDone(p, BufferAfter(p))
            BY <2>1, <4>1 DEF FirstRun, n
      <4> QED BY <4>3, <4>4 DEF PageDone
    <3> QED BY <3>1, <3>2
  <2> QED BY <1>7, <2>1, <2>2, <2>3 DEF FirstRun
<1>11. mode = "pb" => SubRun'
  <2> SUFFICES ASSUME mode = "pb" PROVE SubRun'
      OBVIOUS
  <2>1. SubRun /\ F = <<cur, sub>> /\ cur >= 0
        BY <1>5
  <2>2. \A p : <<p>> \in DOMAIN pg => <<p>> # F /\ pg'[<<p>>] = pg[<<p>>]
        BY <1>7, <2>1, Names
  <2>3. \A p : <<p>> \in DOMAIN pg' <=> <<p>> \in DOMAIN pg
        BY <1>7
  <2>4. ASSUME NEW p \in Nat, <<p>> \in DOMAIN pg' PROVE PageDone(p, BufferOf(<<p + 1>>))'
    <3>1. PageDone(p, BufferOf(<<p + 1>>))
          BY <2>1, <2>3, <2>4 DEF SubRun
    <3>2. BufferOf(<<p + 1>>)' = BufferOf(<<p + 1>>)
          BY <2>2, <2>3 DEF BufferOf
    <3> QED BY <2>2, <2>3, <2>4, <3>1, <3>2 DEF PageDone
  <2>5. Recovered(<<cur>>)' = Recovered(<<cur>>)
        BY <2>2, <2>3 DEF Recovered
  <2>6. ASSUME ~back PROVE ReadInv'
    <3>1. parser.term = Recovered(<<cur>>).term
          BY <2>1, <2>6 DEF SubRun, ReadInv
    <3> QED BY <1>7, <2>5, <2>6, <3>1 DEF ReadInv
  <2> QED BY <2>1, <2>4, <2>6 DEF SubRun
<1> QED BY <1>1, <1>8, <1>9, <1>10, <1>11 DEF IInv, SubPageInv

LEMMA BreakPageStep == ASSUME IInv, NEW g \in Glyphs, BreakPage(g) PROVE IInv'
<1>1. /\ TypeOK /\ FileInv /\ st = "draw" /\ st' = "shown" /\ TakesGlyph(g) /\ g # Eof
      /\ lo' = Reset(Place(g).lo) /\ parser' = GivenBack /\ EndPage(mgr)
      /\ UNCHANGED <<mode, doc, size, widTab, cur, call, sub, newPage, shown, content, out, back>>
      BY DEF IInv, SubPageInv, BreakPage, TakesGlyph, input, frame, history
<1>2. /\ parser.buf # <<>> /\ g = Head(parser.buf)
      /\ Taken \in ParserType /\ Taken.off = parser.off
      /\ Taken.term = parser.term /\ Taken.held = parser.held
      /\ Taken.buf = Tail(parser.buf) /\ UpTo(doc, Tail(parser.buf), parser.off)
      BY <1>1, TakesFacts
<1>3. parser \in ParserType /\ UpTo(doc, parser.buf, parser.off)
      BY <1>1 DEF TypeOK, FileInv
<1>4. /\ parser' \in ParserType /\ parser'.off = parser.off /\ parser'.held = parser.held
      /\ parser'.term = parser.term /\ UpTo(doc, parser'.buf, parser.off)
      /\ newPage => parser' = parser
      BY <1>1, <1>2, <1>3 DEF GivenBack
<1>5. lo' \in Layout
      BY <1>1, PlaceType, ResetType
<1>6. mgr \in MgrType
      BY <1>1, ParserTypes
<1>7. ASSUME mode = "paginate"
      PROVE  /\ EndsIn(doc, parser.off, parser'.buf) /\ NoEof(doc, parser'.buf)
             /\ Covers(doc, pg[<<sub>>], content[<<sub>>], parser'.buf, parser.off)
             /\ mgr.max # NoMax => parser'.buf = <<>>
  <2>1. FirstRun /\ newPage /\ parser' = parser
        BY <1>1, <1>4, <1>7 DEF IInv, SubPageInv, FirstRun
  <2>2. NoEof(doc, parser.buf)
    <3>1. Head(<<Eof>>) = Eof
          OBVIOUS
    <3> QED BY <1>1, <1>2, <2>1, <3>1 DEF FirstRun
  <2> QED BY <1>1, <1>2, <2>1, <2>2 DEF FirstRun
<1>8. ASSUME mode = "pb", ~back
      PROVE  /\ Covers(doc, Recovered(<<cur>>), out, parser'.buf, parser.off)
             /\ NoEof(doc, parser'.buf) \/ parser.off + parser.held >= parser.term
             /\ mgr.max # NoMax => /\ parser.off + parser.held >= parser.term
                                   /\ \A i \in DOMAIN parser'.buf : parser'.buf[i] = Len(doc) + 1
  <2>1. ReadInv /\ newPage
        BY <1>1, <1>8 DEF IInv, SubPageInv, SubRun
  <2> QED BY <1>4, <2>1 DEF ReadInv
<1> QED BY <1>1, <1>4, <1>5, <1>6, <1>7, <1>8, EndStep

LEMMA EndDocumentStep == ASSUME IInv, NEW g \in Glyphs, EndDocument(g) PROVE IInv'
<1> DEFINE m == [mgr EXCEPT !.max = sub]
<1>1. /\ TypeOK /\ FileInv /\ st = "draw" /\ st' = "shown" /\ TakesGlyph(Eof)
      /\ lo' = lo /\ parser' = Taken /\ EndPage(m)
      /\ UNCHANGED <<mode, doc, size, widTab, cur, call, sub, newPage, shown, content, out, back>>
      BY DEF IInv, SubPageInv, EndDocument, TakesGlyph, input, frame, history
<1>2. /\ parser.buf # <<>> /\ Eof = Head(parser.buf)
      /\ parser' \in ParserType /\ parser'.off = parser.off
      /\ parser'.term = parser.term /\ parser'.held = parser.held
      /\ parser'.buf = <<>> /\ UpTo(doc, <<>>, parser.off)
      /\ ~NoEof(doc, parser.buf)
      BY <1>1, TakesFacts
<1>3. lo' \in Layout
      BY <1>1 DEF TypeOK
<1>4. m \in MgrType /\ m.num = mgr.num
  <2>1. mgr \in MgrType /\ sub \in Nat
        BY <1>1, ParserTypes DEF TypeOK
  <2> QED BY <2>1 DEF MgrType
<1> HIDE DEF m
<1>5. ASSUME mode = "paginate"
      PROVE  /\ EndsIn(doc, parser.off, parser'.buf) /\ NoEof(doc, parser'.buf)
             /\ Covers(doc, pg[<<sub>>], content[<<sub>>], parser'.buf, parser.off)
             /\ m.max # NoMax => parser'.buf = <<>>
  <2>1. FirstRun
        BY <1>5 DEF IInv, SubPageInv
  <2>2. parser.off = Len(doc) /\ Covers(doc, pg[<<sub>>], content[<<sub>>], parser.buf, parser.off)
        BY <1>1, <1>2, <2>1 DEF FirstRun
  <2>3. Covers(doc, pg[<<sub>>], content[<<sub>>], <<>>, parser.off)
        BY <1>1, <2>2, EofCovers
  <2>4. doc[Len(doc)] \in Tag
        BY <1>1, DocIs
  <2> QED BY <1>2, <2>2, <2>3, <2>4, EmptyText DEF EndsIn
<1>6. ASSUME mode = "pb", ~back
      PROVE  /\ Covers(doc, Recovered(<<cur>>), out, parser'.buf, parser.off)
             /\ NoEof(doc, parser'.buf) \/ parser.off + parser.held >= parser.term
             /\ m.max # NoMax => /\ parser.off + parser.held >= parser.term
                                 /\ \A i \in DOMAIN parser'.buf : parser'.buf[i] = Len(doc) + 1
  <2>1. ReadInv
        BY <1>1, <1>6 DEF IInv, SubPageInv, SubRun
  <2>2. Covers(doc, Recovered(<<cur>>), out, parser.buf, parser.off)
        /\ parser.off + parser.held >= parser.term
        BY <1>2, <2>1 DEF ReadInv
  <2>3. Covers(doc, Recovered(<<cur>>), out, <<>>, parser.off)
        BY <1>1, <2>2, EofCovers
  <2>4. DOMAIN <<>> = {}
        OBVIOUS
  <2> QED BY <1>2, <2>2, <2>3, <2>4, EmptyText
<1> QED BY <1>1, <1>2, <1>3, <1>4, <1>5, <1>6, EndStep

LEMMA StutterStep == ASSUME IInv, UNCHANGED vars PROVE IInv'
<1>1. UNCHANGED <<mode, doc, size, widTab, parser, lo, mgr, pg, cur, call, sub, newPage, st,
                  shown, content, out, back>>
      BY DEF vars, input, frame, history
<1>2. /\ FileType' = FileType /\ ParserType' = ParserType /\ MgrType' = MgrType
      /\ CallType' = CallType
      BY <1>1 DEF FileType, ParserType, MgrType, CallType, Offset, Glyphs, Eof
<1>3. FilesOK'
      BY <1>1, <1>2 DEF IInv, TypeOK, FilesOK
<1>4. TypeOK'
      BY <1>1, <1>2, <1>3 DEF IInv, TypeOK
<1>5. FileInv'
      BY <1>1 DEF IInv, SubPageInv, FileInv
<1>6. mode = "paginate" => FirstRun'
  <2>1. ASSUME FirstRun PROVE FirstRun'
    <3>1. \A p \in 0 .. mgr'.num - 1 : PageDone(p, BufferAfter(p))'
          BY <1>1, <2>1 DEF FirstRun, PageDone, BufferAfter
    <3>2. Eof' = Eof
          BY <1>1 DEF Eof
    <3> QED BY <1>1, <2>1, <3>1, <3>2 DEF FirstRun
  <2> QED BY <2>1 DEF IInv, SubPageInv
<1>7. mode = "pb" => SubRun'
  <2>1. ASSUME SubRun PROVE SubRun'
    <3>1. \A p \in Nat : <<p>> \in DOMAIN pg' => PageDone(p, BufferOf(<<p + 1>>))'
          BY <1>1, <2>1 DEF SubRun, PageDone, BufferOf
    <3>2. cur' >= 0 /\ ~back' => ReadInv'
          BY <1>1, <2>1 DEF SubRun, ReadInv, Recovered
    <3> QED BY <1>1, <2>1, <3>1, <3>2 DEF SubRun
  <2> QED BY <2>1 DEF IInv, SubPageInv
<1>8. mode' = "dead" => st' = "idle" /\ cur' = -1
      BY <1>1 DEF IInv, SubPageInv
<1> QED BY <1>1, <1>4, <1>5, <1>6, <1>7, <1>8 DEF IInv, SubPageInv

LEMMA StepInv == IInv /\ [Next]_vars => IInv'
<1> SUFFICES ASSUME IInv, [Next]_vars PROVE IInv'
    OBVIOUS
<1>1. CASE Paginate
      BY <1>1, PaginateStep
<1>2. CASE \E same \in BOOLEAN : OpenPages(same)
      BY <1>2, OpenPagesStep
<1>3. CASE DisplayPage
      BY <1>3, DisplayPageStep
<1>4. CASE DisplayAhead
      BY <1>4, DisplayAheadStep
<1>5. CASE AheadLoop
      BY <1>5, AheadLoopStep
<1>6. CASE AheadLast
      BY <1>6, AheadLastStep
<1>7. CASE Return
      BY <1>7, ReturnStep
<1>8. CASE FillBuffer
      BY <1>8, FillStep
<1>9. CASE \E p \in 0 .. MaxPage : SetPage(p)
      BY <1>9, SetPageStep
<1>10. CASE \E n \in 0 .. MaxSub : GetPage(n)
      BY <1>10, GetPageStep
<1>11. ASSUME NEW g \in Glyphs, DrawGlyph(g) \/ BreakPage(g) \/ EndDocument(g) \/ Die(g)
       PROVE  IInv'
      BY <1>11, DrawGlyphStep, BreakPageStep, EndDocumentStep, DieStep
<1>12. CASE UNCHANGED vars
      BY <1>12, StutterStep
<1> QED BY <1>1, <1>2, <1>3, <1>4, <1>5, <1>6, <1>7, <1>8, <1>9, <1>10, <1>11, <1>12 DEF Next

LEMMA Inductive == Spec => []IInv
BY InitInv, StepInv, PTL DEF Spec

-----------------------------------------------------------------------------
(* What the invariant says of the pages shown.                              *)

\* Text t is what is shown up to off, page and next what the page and the
\* following one were given: at most the last of next is missing.
LEMMA TextOfPage ==
  ASSUME NEW d \in Seq(Token), NEW f, NEW c \in Seq(DOMAIN d), NEW t \in Seq(DOMAIN d),
         NEW next \in Seq(1 .. Len(d) + 1), f.off \in Int, NEW term \in 0 .. Len(d),
         NEW off \in 0 .. term,
         EndsIn(d, term, next), Covers(d, f, c, next, term),
         Covers(d, f, t, <<>>, off),
         off = term \/ (off + 1 = term /\ d[term] \notin Tag)
  PROVE  Begins(Seen(d, c), Seen(d, t)) /\ Begins(Seen(d, t), Seen(d, c) \cup Seen(d, next))
<1> DEFINE C == Seen(d, c)
           N == Seen(d, next)
           T == Seen(d, t)
<1>1. /\ Len(d) \in Nat /\ DOMAIN d = 1 .. Len(d) /\ \A i \in 1 .. Len(d) : d[i] \in Token
      /\ term \in Nat /\ off \in Nat
      BY PrefixFacts
<1>2. /\ f.off <= off /\ Seen(d, <<>>) = {}
      /\ C \cup N = Seen(d, f.buf) \cup Ahead(d, f.off, term)
      /\ T = Seen(d, f.buf) \cup Ahead(d, f.off, off)
      BY EmptyText DEF Covers
<1>3. C \subseteq Int /\ N \subseteq Int /\ T \subseteq Int
      BY <1>1 DEF Seen
<1>4. \A a \in C, b \in N : a < b
      BY DEF Covers, Before, Seen
<1>5. \A a \in T : a <= off
      BY DEF Covers, Seen
<1>6. CASE off = term
  <2>1. T = C \cup N
        BY <1>2, <1>6
  <2> HIDE DEF C, N, T
  <2>2. Begins(C, T) /\ Begins(T, C \cup N)
        BY <1>4, <2>1 DEF Begins
  <2> QED BY <2>2 DEF C, N, T
<1>7. CASE off + 1 = term /\ d[term] \notin Tag
  <2>1. Ahead(d, f.off, off) \cup Ahead(d, off, term) = Ahead(d, f.off, term)
    <3>1. f.off \in Int /\ off \in Int /\ term \in Int /\ f.off <= off /\ off <= term
          BY <1>1, <1>2, <1>7
    <3> QED BY <3>1 DEF Ahead
  <2>2. Ahead(d, off, term) \subseteq {term}
        BY <1>1, <1>7 DEF Ahead
  <2>3. T \subseteq C \cup N /\ C \cup N \subseteq T \cup {term}
        BY <1>2, <2>1, <2>2
  <2>4. next # <<>> /\ next[Len(next)] = term
        BY <1>1, <1>7 DEF EndsIn
  <2>5. Len(next) \in DOMAIN next
        BY <2>4, EmptySeq, LenProperties
  <2>6. ASSUME term \in C PROVE FALSE
    <3>1. PICK i \in DOMAIN c : c[i] = term
          BY <2>6 DEF Seen
    <3>2. c[i] < next[Len(next)]
          BY <2>5 DEF Covers, Before
    <3> QED BY <1>1, <2>4, <3>1, <3>2
  <2> HIDE DEF C, N, T
  <2>7. Begins(C, T)
    <3>1. C \subseteq T
          BY <2>3, <2>6
    <3>2. ASSUME NEW a \in C, NEW b \in T \ C PROVE a < b
      <4>1. b \in N
            BY <2>3, <3>2
      <4> QED BY <1>4, <4>1
    <3> QED BY <3>1, <3>2 DEF Begins
  <2>8. Begins(T, C \cup N)
    <3>1. ASSUME NEW a \in T, NEW b \in (C \cup N) \ T PROVE a < b
      <4>1. b = term /\ a <= off /\ a \in Int
            BY <1>3, <1>5, <2>3
      <4> QED BY <1>1, <1>7, <4>1
    <3> QED BY <2>3, <3>1 DEF Begins
  <2> QED BY <2>7, <2>8 DEF C, N, T
<1> QED BY <1>6, <1>7

LEMMA ShowsPage == IInv => SubPagesShowPage
<1> DEFINE page == Visible(ContentOf(<<cur>>))
           next == Visible(BufferOf(<<cur + 1>>))
           R == Recovered(<<cur>>)
<1> SUFFICES ASSUME IInv, mode = "pb", cur >= 0, st = "idle", mgr.max # NoMax, ~back
             PROVE  /\ InOrder(ContentOf(<<cur>>)) /\ InOrder(out)
                    /\ Begins(page, Visible(out)) /\ Begins(Visible(out), page \cup next)
    BY DEF SubPagesShowPage
<1>1. TypeOK /\ FileInv /\ SubRun /\ ReadInv
      BY DEF IInv, SubPageInv, SubRun
<1>2. /\ doc \in Seq(Token) /\ Len(doc) \in Nat /\ DOMAIN doc = 1 .. Len(doc)
      BY <1>1, DocIs
<1>3. /\ parser.off \in 0 .. Len(doc) /\ parser.term \in 0 .. Len(doc) /\ parser.held \in {0, 1}
      /\ Glyphs = 1 .. Len(doc) + 1 /\ cur \in Nat /\ out \in Seq(DOMAIN doc)
      BY <1>1, ParserTypes DEF TypeOK
<1>4. /\ parser.term = R.term /\ Covers(doc, R, out, parser.buf, parser.off)
      /\ parser.off + parser.held >= parser.term
      /\ \A i \in DOMAIN parser.buf : parser.buf[i] = Len(doc) + 1
      BY <1>1 DEF ReadInv
<1>5. parser.off <= parser.term
      /\ (parser.held = 1 => parser.off + 1 = parser.term /\ doc[parser.term] \notin Tag)
      BY <1>1 DEF SubRun
<1>6. Covers(doc, R, out, <<>>, parser.off)
  <2>1. Seen(doc, parser.buf) = {}
        BY <1>2, <1>4 DEF Seen
  <2> QED BY <1>4, <2>1, EmptyText DEF Covers
<1>7. parser.off = parser.term \/ (parser.off + 1 = parser.term /\ doc[parser.term] \notin Tag)
  <2>1. CASE parser.held = 1
        BY <1>5, <2>1
  <2>2. CASE parser.held = 0
        BY <1>3, <1>4, <1>5, <2>2
  <2> QED BY <1>3, <2>1, <2>2
<1>8. InOrder(out)
      BY <1>6 DEF Covers
<1>9. CASE <<cur>> \in DOMAIN pg
  <2> DEFINE f == pg[<<cur>>]
             c == content[<<cur>>]
             n == BufferOf(<<cur + 1>>)
  <2>1. PageDone(cur, n)
        BY <1>1, <1>3, <1>9 DEF SubRun
  <2>2. f.done /\ EndsIn(doc, f.term, n) /\ Covers(doc, f, c, n, f.term)
        BY <2>1 DEF PageDone, Ended
  <2>3. R = f
        BY <1>9, <2>2 DEF Recovered
  <2>4. f.off \in Int /\ c \in Seq(DOMAIN doc) /\ <<cur>> \in DOMAIN content
        BY <1>1, <1>9, FileTypes
  <2>5. n \in Seq(1 .. Len(doc) + 1)
    <3>1. <<cur + 1>> \in DOMAIN pg => pg[<<cur + 1>>].buf \in Seq(Glyphs)
          BY <1>1, FileTypes
    <3>2. <<>> \in Seq(1 .. Len(doc) + 1)
          OBVIOUS
    <3> QED BY <1>3, <3>1, <3>2 DEF BufferOf
  <2>6. page = Seen(doc, c) /\ next = Seen(doc, n) /\ Visible(out) = Seen(doc, out)
        /\ ContentOf(<<cur>>) = c
        BY <2>4 DEF ContentOf, Visible, Seen
  <2> HIDE DEF f, c, n, R, page, next
  <2>7. /\ EndsIn(doc, parser.term, n) /\ Covers(doc, f, c, n, parser.term)
        /\ Covers(doc, f, out, <<>>, parser.off)
        BY <1>4, <1>6, <2>2, <2>3
  <2>8. parser.off \in 0 .. parser.term
        BY <1>2, <1>3, <1>5
  <2>9. Begins(Seen(doc, c), Seen(doc, out)) /\ Begins(Seen(doc, out), Seen(doc, c) \cup Seen(doc, n))
        BY <1>2, <1>3, <1>7, <2>4, <2>5, <2>7, <2>8, TextOfPage
  <2>10. InOrder(c)
        BY <2>2 DEF Covers
  <2> QED BY <1>8, <2>6, <2>9, <2>10
<1>10. CASE <<cur>> \notin DOMAIN pg
  <2>1. R.term = 0 /\ R.off = 0 /\ R.buf = <<>>
        BY <1>10 DEF Recovered
  <2>2. ContentOf(<<cur>>) = <<>>
        BY <1>1, <1>10 DEF ContentOf, TypeOK, FilesOK
  <2> HIDE DEF R
  <2>3. parser.off = 0
        BY <1>3, <1>4, <1>5, <2>1
  <2>4. Seen(doc, out) = {}
        BY <1>6, <2>1, <2>3, EmptyText, AheadIs DEF Covers
  <2>5. page = {} /\ Visible(out) = {}
        BY <2>2, <2>4, EmptyText DEF Visible, Seen
  <2>6. InOrder(ContentOf(<<cur>>))
        BY <2>2, EmptyText
  <2> HIDE DEF page, next
  <2>7. Begins(page, Visible(out)) /\ Begins(Visible(out), page \cup next)
        BY <2>5 DEF Begins
  <2> QED BY <1>8, <2>6, <2>7
<1> QED BY <1>9, <1>10

\* The state keeps its types: every offset lies in the document, every stored
\* file ends where or behind where it begins (PageManager.cpp, DocState).
THEOREM PageBasedTypes == Spec => []TypeOK
<1>1. IInv => TypeOK
      BY DEF IInv
<1> QED BY <1>1, Inductive, PTL

\* When the sub-pages of a page have been shown to the last (HG_PB_GetPage),
\* they show, in order and once, what the page showed in the earlier run, and
\* behind it at most the begin of the next page.
THEOREM SubPagesShowTheirPage == Spec => []SubPagesShowPage
BY Inductive, ShowsPage, PTL
================================================================================
