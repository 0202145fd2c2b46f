--------------------------- MODULE TypesetterProofs ---------------------------
(***************************************************************************)
(* Proofs about module Typesetter, for every page geometry and every set   *)
(* of documents.                                                           *)
(***************************************************************************)
EXTENDS Typesetter, TextLayoutProofs, SequenceTheorems, TLAPS

-----------------------------------------------------------------------------
(* What the operators of a step return.                                     *)

\* The rows in hand are rows of the table in hand, and the parser never
\* stands behind the last row of one.
RowsOfTable ==
  /\ rows # <<>> => st = "set" /\ next <= Len(items) /\ items[next].kind = "table"
  /\ next <= Len(items) => from + Len(rows) <= Rows(next)
  /\ \A k \in DOMAIN start : start[k].next <= Len(items) => start[k].from <= Rows(start[k].next)

LEMMA ItemsType ==
  ASSUME TypeOK
  PROVE  /\ items \in Seq(Item) /\ Len(items) \in Nat /\ DOMAIN items = 1 .. Len(items)
         /\ \A k \in DOMAIN items : /\ items[k] \in Item
                                    /\ items[k].kind = "graph" => items[k].w > 0 /\ items[k].h > 0
                                    /\ items[k].kind = "table" => items[k].rows # <<>>
<1>1. items \in Documents
      BY DEF TypeOK
<1>2. items \in Seq(Item)
      BY <1>1, TypesetterAssumption DEF TypesetterAssumption
<1>3. \A k \in DOMAIN items : /\ items[k].kind = "graph" => items[k].w > 0 /\ items[k].h > 0
                              /\ items[k].kind = "table" => items[k].rows # <<>>
      BY <1>1, TypesetterAssumption DEF TypesetterAssumption
<1>4. Len(items) \in Nat /\ DOMAIN items = 1 .. Len(items)
      BY <1>2, LenProperties
<1>5. \A k \in DOMAIN items : items[k] \in Item
      BY <1>2, <1>4, ElementOfSeq
<1> QED BY <1>2, <1>3, <1>4, <1>5

LEMMA StartType ==
  ASSUME TypeOK
  PROVE  /\ Len(start) \in Nat /\ DOMAIN start = 1 .. Len(start) /\ page \in 1 .. Len(start)
         /\ \A k \in DOMAIN start :
              /\ start[k] \in [next : 1 .. Len(items) + 1, from : Nat \ {0}]
              /\ start[k].next \in 1 .. Len(items) + 1 /\ start[k].from \in Nat \ {0}
<1> DEFINE E == [next : 1 .. Len(items) + 1, from : Nat \ {0}]
<1>1. \A e \in E : e.next \in 1 .. Len(items) + 1 /\ e.from \in Nat \ {0}
      OBVIOUS
<1>2. start \in Seq(E) /\ page \in DOMAIN start
      BY DEF TypeOK
<1> HIDE DEF E
<1>3. Len(start) \in Nat /\ DOMAIN start = 1 .. Len(start)
      BY <1>2, LenProperties
<1>4. \A k \in DOMAIN start : start[k] \in E
      BY <1>2, <1>3, ElementOfSeq
<1> QED BY <1>1, <1>2, <1>3, <1>4 DEF E

LEMMA ItemFields ==
  ASSUME NEW g \in Item
  PROVE  /\ g.kind \in {"char", "break", "graph", "broken", "table"}
         /\ g.w \in Nat /\ g.h \in Nat /\ g.b \in Int /\ g.rows \in Seq(Nat)
BY DEF Item

\* Every item has a row.
LEMMA RowsType ==
  ASSUME TypeOK, NEW i \in DOMAIN items
  PROVE  Rows(i) \in Nat /\ Rows(i) >= 1
<1>1. items[i] \in Item /\ (items[i].kind = "table" => items[i].rows # <<>>)
      BY ItemsType
<1>2. items[i].rows \in Seq(Nat)
      BY <1>1, ItemFields
<1>3. Len(items[i].rows) \in Nat /\ (items[i].rows # <<>> => Len(items[i].rows) # 0)
      BY <1>2, LenProperties, EmptySeq
<1> QED BY <1>1, <1>3 DEF Rows

LEMMA PageSizes == PageW \in Int /\ PageH \in Int
BY LayoutAssumption DEF LayoutAssumption, PageW, PageH

LEMMA QuotientType == ASSUME NEW a \in Int, NEW b \in Nat, b > 0 PROVE a \div b \in Int
OBVIOUS

\* A scaled image is of the same kind.
LEMMA ResizedType ==
  ASSUME NEW g \in Item, g.w > 0, g.h > 0
  PROVE  LET r == Resized(g)
         IN  r.kind = g.kind /\ r.rows = g.rows /\ r.b \in Int /\ r.w \in Int /\ r.h \in Int
<1>1. g.w \in Nat /\ g.h \in Nat /\ g.b \in Int
      BY ItemFields
<1>2. ASSUME NEW w \in Int
      PROVE  LET r == WideAs(g, w)
             IN  r.kind = g.kind /\ r.rows = g.rows /\ r.b \in Int /\ r.w \in Int /\ r.h \in Int
  <2>1. g.h * w \in Int
        BY <1>1
  <2>2. (g.h * w) \div g.w \in Int
        BY <1>1, <2>1, QuotientType
  <2> DEFINE q == (g.h * w) \div g.w
  <2> HIDE DEF q
  <2>3. LET r == [g EXCEPT !.w = w, !.h = q]
        IN  r.kind = g.kind /\ r.rows = g.rows /\ r.b = g.b /\ r.w = w /\ r.h = q
        BY DEF Item
  <2>4. WideAs(g, w) = [g EXCEPT !.w = w, !.h = q]
        BY DEF WideAs, q
  <2>5. q \in Int
        BY <2>2 DEF q
  <2> QED BY <2>3, <2>4, <2>5, <1>1
<1>3. ASSUME NEW h \in Int
      PROVE  LET r == HighAs(g, h)
             IN  r.kind = g.kind /\ r.rows = g.rows /\ r.b \in Int /\ r.w \in Int /\ r.h \in Int
  <2>1. g.w * h \in Int
        BY <1>1
  <2>2. (g.w * h) \div g.h \in Int
        BY <1>1, <2>1, QuotientType
  <2> DEFINE q == (g.w * h) \div g.h
  <2> HIDE DEF q
  <2>3. LET r == [g EXCEPT !.h = h, !.w = q]
        IN  r.kind = g.kind /\ r.rows = g.rows /\ r.b = g.b /\ r.h = h /\ r.w = q
        BY DEF Item
  <2>4. HighAs(g, h) = [g EXCEPT !.h = h, !.w = q]
        BY DEF HighAs, q
  <2>5. q \in Int
        BY <2>2 DEF q
  <2> QED BY <2>3, <2>4, <2>5, <1>1
<1>4. PageW - ImageGuard \in Int /\ PageH - ImageGuard \in Int
      BY PageSizes, TypesetterAssumption DEF TypesetterAssumption
<1> QED BY <1>1, <1>2, <1>3, <1>4 DEF Resized

LEMMA HereType ==
  ASSUME TypeOK, ~AtEnd
  PROVE  /\ next \in DOMAIN items
         /\ Here.kind = items[next].kind /\ Here.rows = items[next].rows
         /\ Here.w \in Int /\ Here.h \in Int /\ Here.b \in Int
<1>1. next \in DOMAIN items
      BY ItemsType DEF TypeOK, AtEnd
<1>2. /\ items[next] \in Item
      /\ items[next].kind = "graph" => items[next].w > 0 /\ items[next].h > 0
      BY <1>1, ItemsType
<1>3. CASE items[next].kind = "graph"
      BY <1>1, <1>2, <1>3, ResizedType DEF Here
<1>4. CASE items[next].kind # "graph"
      BY <1>1, <1>2, <1>4, ItemFields DEF Here
<1> QED BY <1>3, <1>4

LEMMA AskedType ==
  ASSUME TypeOK, Setting({"char", "graph", "break"})
  PROVE  /\ Asked.lo \in Layout
         /\ Here.kind # "break" => Asked.px \in Int /\ Asked.py \in Int
<1>1. lo \in Layout /\ ~AtEnd /\ Here.kind \in {"char", "graph", "break"}
      BY DEF TypeOK, Setting
<1>2. Here.w \in Int /\ Here.h \in Int /\ Here.b \in Int
      BY <1>1, HereType
<1>3. CASE Here.kind = "char"
  <2>1. Asked = GetCharPos(lo, Here.w, Here.h, Here.b)
        BY <1>3 DEF Asked
  <2> QED BY <1>1, <1>2, <2>1, GetCharPosType, PositionType
<1>4. CASE Here.kind = "graph"
  <2>1. Asked = GetGraphPos(lo, Here.w, Here.h)
        BY <1>4 DEF Asked
  <2> QED BY <1>1, <1>2, <2>1, GetGraphPosType, PositionType
<1>5. CASE Here.kind = "break"
  <2>1. Asked = NewLine(lo)
        BY <1>5 DEF Asked
  <2> QED BY <1>1, <1>5, <2>1, NewLineType
<1> QED BY <1>1, <1>3, <1>4, <1>5

LEMMA BoxIsBox ==
  ASSUME TypeOK, ~AtEnd, NEW row \in Nat, NEW w \in Int, NEW h \in Int,
         NEW r, r.px \in Int, r.py \in Int
  PROVE  Box(row, w, h, r) \in BoxType
<1>1. next \in DOMAIN items
      BY HereType
<1> QED BY <1>1 DEF Box, BoxType

LEMMA RowHeight ==
  ASSUME TypeOK, RowsOfTable, Setting({"table"})
  PROVE  /\ ~AtEnd /\ items[next].kind = "table" /\ Here.rows = items[next].rows
         /\ Rows(next) = Len(Here.rows) /\ Rows(next) \in Nat
         /\ Len(rows) \in Nat /\ from + Len(rows) \in 1 .. Rows(next)
         /\ Here.rows[from + Len(rows)] \in Nat
<1>1. ~AtEnd /\ items[next].kind = "table" /\ Here.rows = items[next].rows /\ next \in DOMAIN items
      BY HereType DEF Setting
<1>2. Rows(next) = Len(Here.rows) /\ Rows(next) \in Nat
      BY <1>1, RowsType DEF Rows
<1>3. next <= Len(items)
      BY <1>1, ItemsType
<1>4. from \in Nat \ {0} /\ rows \in Seq(BoxType)
      BY DEF TypeOK
<1>5. Len(rows) \in Nat
      BY <1>4, LenProperties
<1>6. from + Len(rows) <= Rows(next)
      BY <1>3 DEF RowsOfTable
<1>7. from + Len(rows) \in 1 .. Rows(next)
      BY <1>2, <1>4, <1>5, <1>6
<1>8. Here.rows \in Seq(Nat)
      BY <1>1, ItemsType, ItemFields
<1>9. Here.rows[from + Len(rows)] \in Nat
      BY <1>2, <1>7, <1>8, ElementOfSeq
<1> QED BY <1>1, <1>2, <1>5, <1>7, <1>9

LEMMA RowAskedType ==
  ASSUME TypeOK, RowsOfTable, Setting({"table"})
  PROVE  RowAsked.lo \in Layout /\ RowBox \in BoxType
<1> DEFINE h == Here.rows[from + Len(rows)]
           r == [RowAsked EXCEPT !.py = @ + h]
<1>1. h \in Int /\ lo \in Layout /\ from + Len(rows) \in Nat /\ ~AtEnd
  <2>1. lo \in Layout
        BY DEF TypeOK
  <2> QED BY <2>1, RowHeight
<1>2. Here.w \in Int
      BY <1>1, HereType
<1>3. RowAsked.px \in Int /\ RowAsked.py \in Int /\ RowAsked.lo \in Layout
      BY <1>1, GetTablePosType, PositionType DEF RowAsked
<1>4. RowAsked = [ret |-> RowAsked.ret, lo |-> RowAsked.lo, px |-> RowAsked.px, py |-> RowAsked.py]
      BY DEF RowAsked, GetTablePos, PageFull, Result
<1> HIDE DEF h
<1>5. r.px \in Int /\ r.py \in Int
      BY <1>1, <1>3, <1>4
<1> HIDE DEF r
<1>6. Box(from + Len(rows), Here.w, h, r) \in BoxType
      BY <1>1, <1>2, <1>5, BoxIsBox
<1>7. RowBox = Box(from + Len(rows), Here.w, h, r)
      BY DEF RowBox, h, r
<1> QED BY <1>3, <1>6, <1>7

\* A box that is moved down is the same box of the same item.
LEMMA AdjustedType ==
  ASSUME TypeOK, NEW g \in BoxType, NEW baseline \in Int
  PROVE  LET a == Adjusted(g, baseline)
         IN  a \in BoxType /\ a.item = g.item /\ a.row = g.row /\ a.live = g.live
<1>1. g.item \in DOMAIN items /\ g.top \in Int /\ g.bottom \in Int
      BY DEF BoxType
<1>2. baseline - items[g.item].b \in Int
      BY <1>1, ItemsType, ItemFields
<1> DEFINE delta == baseline - items[g.item].b
           t == [g EXCEPT !.top = g.top + delta]
           u == [t EXCEPT !.bottom = g.bottom + delta]
<1> HIDE DEF delta
<1>3. t \in BoxType /\ t.item = g.item /\ t.row = g.row /\ t.live = g.live
      BY <1>1, <1>2 DEF BoxType, delta
<1>4. [g EXCEPT !.top = @ + delta, !.bottom = @ + delta] = u
      BY DEF BoxType
<1> HIDE DEF t
<1>5. u \in BoxType /\ u.item = g.item /\ u.row = g.row /\ u.live = g.live
      BY <1>1, <1>2, <1>3 DEF BoxType, delta
<1> HIDE DEF u
<1>6. Adjusted(g, baseline) \in {u, g}
      BY <1>4 DEF Adjusted, delta
<1> QED BY <1>5, <1>6

LEMMA FlushType ==
  ASSUME TypeOK, NEW after \in Layout, DrawFlush(after)
  PROVE  ink' \subseteq BoxType /\ ghost' \in BOOLEAN
<1>1. after.lastBaseline \in Int /\ line \in Seq(BoxType) /\ ink \subseteq BoxType
      BY FieldTypes DEF TypeOK
<1>2. \A k \in DOMAIN line : line[k] \in BoxType
      BY <1>1, LenProperties, ElementOfSeq
<1>3. \A k \in DOMAIN line : Adjusted(line[k], after.lastBaseline) \in BoxType
      BY <1>1, <1>2, AdjustedType
<1>4. ink' \subseteq BoxType
      BY <1>1, <1>3 DEF DrawFlush
<1>5. ghost' \in BOOLEAN
      BY DEF DrawFlush, TypeOK
<1> QED BY <1>4, <1>5

LEMMA FreedType ==
  ASSUME NEW s \in Seq(BoxType)
  PROVE  /\ Freed(s) \in Seq(BoxType) /\ DOMAIN Freed(s) = DOMAIN s
         /\ \A k \in DOMAIN s : ~Freed(s)[k].live
<1>1. Len(s) \in Nat /\ DOMAIN s = 1 .. Len(s)
      BY LenProperties
<1>2. \A k \in DOMAIN s : s[k] \in BoxType
      BY <1>1, ElementOfSeq
<1>3. ASSUME NEW g \in BoxType
      PROVE  [g EXCEPT !.live = FALSE] \in BoxType /\ ~[g EXCEPT !.live = FALSE].live
      BY DEF BoxType
<1>4. Freed(s) \in [1 .. Len(s) -> BoxType]
      BY <1>1, <1>2, <1>3, Zenon DEF Freed
<1>5. Freed(s) \in Seq(BoxType)
      BY <1>1, <1>4
<1>6. DOMAIN Freed(s) = DOMAIN s /\ \A k \in DOMAIN s : Freed(s)[k] = [s[k] EXCEPT !.live = FALSE]
      BY Zenon DEF Freed
<1>7. \A k \in DOMAIN s : ~Freed(s)[k].live
      BY <1>2, <1>3, <1>6, Zenon
<1> QED BY <1>5, <1>6, <1>7

\* Where the parser stands after an item.
LEMMA PassedType ==
  ASSUME TypeOK, ~AtEnd, Passed
  PROVE  /\ next' \in 1 .. Len(items) + 1 /\ from' = 1 /\ from' \in Nat \ {0}
         /\ next' <= Len(items) => Rows(next') \in Nat /\ Rows(next') >= 1
<1>1. next \in 1 .. Len(items) /\ Len(items) \in Nat
      BY HereType, ItemsType
<1>2. next' \in 1 .. Len(items) + 1
      BY <1>1 DEF Passed
<1>3. next' <= Len(items) => next' \in DOMAIN items
      BY <1>1, <1>2, ItemsType
<1> QED BY <1>2, <1>3, RowsType DEF Passed

-----------------------------------------------------------------------------
(* Types of the state.                                                      *)

\* With no rows in hand only where the parser stands matters.
LEMMA RowsKept ==
  ASSUME TypeOK, RowsOfTable, UNCHANGED <<items, start>>, rows' = <<>>,
         next' \in 1 .. Len(items) + 1, from' \in Nat,
         next' <= Len(items) => from' <= Rows(next')
  PROVE  RowsOfTable'
<1>1. from' + Len(rows') = from'
  <2>1. Len(rows') = 0
        OBVIOUS
  <2>2. ASSUME NEW n \in Nat PROVE n + 0 = n
        OBVIOUS
  <2> QED BY <2>1, <2>2
<1>2. (Rows(next))' = Rows(next')
      BY DEF Rows
<1>3. \A k \in DOMAIN start : (Rows(start[k].next))' = Rows(start[k].next)
      BY DEF Rows
<1> QED BY <1>1, <1>2, <1>3 DEF RowsOfTable

LEMMA TypesInit == Init => TypeOK /\ RowsOfTable
<1> SUFFICES ASSUME Init PROVE TypeOK /\ RowsOfTable
    OBVIOUS
<1>1. items \in Documents /\ next = 1 /\ from = 1 /\ rows = <<>> /\ line = <<>> /\ ink = {}
      /\ start = <<[next |-> 1, from |-> 1]>> /\ page = 1
      BY DEF Init
<1>2. items \in Seq(Item) /\ Len(items) \in Nat
      BY <1>1, LenProperties, TypesetterAssumption DEF TypesetterAssumption
<1>3. lo \in Layout
      BY FirstPageType DEF Init
<1>4. line \in Seq(BoxType) /\ rows \in Seq(BoxType)
      BY <1>1, EmptySeq
<1>5. [next |-> 1, from |-> 1] \in [next : 1 .. Len(items) + 1, from : Nat \ {0}]
      BY <1>2
<1>6. start \in Seq([next : 1 .. Len(items) + 1, from : Nat \ {0}]) /\ page \in DOMAIN start
      BY <1>1, <1>5
<1>7. TypeOK
  <2>1. next \in 1 .. Len(items) + 1 /\ from \in Nat \ {0}
        BY <1>1, <1>2
  <2>2. ghost \in BOOLEAN /\ ended \in BOOLEAN /\ st \in {"set", "shown"} /\ ink \subseteq BoxType
        BY DEF Init
  <2> QED BY <1>1, <1>3, <1>4, <1>6, <2>1, <2>2 DEF TypeOK
<1>8. next <= Len(items) => Rows(next) >= 1 /\ Rows(next) \in Nat
      BY <1>1, <1>2, <1>7, ItemsType, RowsType
<1>9. Len(rows) = 0
      BY <1>1
<1>10. \A k \in DOMAIN start : start[k] = [next |-> 1, from |-> 1]
      BY <1>1
<1> QED BY <1>1, <1>7, <1>8, <1>9, <1>10 DEF RowsOfTable

LEMMA TypesNext == TypeOK /\ RowsOfTable /\ [Next]_vars => TypeOK' /\ RowsOfTable'
<1> SUFFICES ASSUME TypeOK, RowsOfTable, [Next]_vars PROVE TypeOK' /\ RowsOfTable'
    OBVIOUS
<1>a. /\ items \in Documents /\ next \in 1 .. Len(items) + 1 /\ from \in Nat \ {0}
      /\ lo \in Layout
      /\ line \in Seq(BoxType) /\ rows \in Seq(BoxType) /\ ink \subseteq BoxType
      /\ start \in Seq([next : 1 .. Len(items) + 1, from : Nat \ {0}])
      /\ page \in DOMAIN start
      /\ ghost \in BOOLEAN /\ ended \in BOOLEAN /\ st \in {"set", "shown"}
      BY DEF TypeOK
<1>b. <<>> \in Seq(BoxType) /\ Len(items) \in Nat
      BY EmptySeq, ItemsType
<1>c. items' = items => BoxType' = BoxType
      BY DEF BoxType
\* Steps that set a glyph, a break or a row and stay on the page.
<1>1. CASE SetOnLine
  <2>1. /\ UNCHANGED <<items, rows, ink, ghost, start, page, ended, st>> /\ lo' = Asked.lo /\ Passed
        /\ line' = Append(line, Box(1, Here.w, Here.h, Asked)) /\ ~AtEnd
        /\ Here.kind \in {"char", "graph"} /\ st = "set" /\ Setting({"char", "graph", "break"})
        BY <1>1 DEF SetOnLine, Setting, document, place
  <2>2. Asked.lo \in Layout /\ Asked.px \in Int /\ Asked.py \in Int
        BY <2>1, AskedType
  <2>3. Box(1, Here.w, Here.h, Asked) \in BoxType
        BY <2>1, <2>2, BoxIsBox, HereType
  <2>4. line' \in Seq(BoxType)
        BY <1>a, <2>1, <2>3, AppendProperties
  <2>5. rows = <<>>
        BY <2>1, HereType DEF RowsOfTable
  <2>6. TypeOK'
        BY <1>a, <1>c, <2>1, <2>2, <2>4, PassedType DEF TypeOK
  <2>7. RowsOfTable'
        BY <2>1, <2>5, PassedType, RowsKept
  <2> QED BY <2>6, <2>7
<1>2. CASE SetOnNextLine
  <2>1. /\ UNCHANGED <<items, rows, start, page, ended, st>> /\ lo' = Asked.lo /\ Passed
        /\ DrawFlush(Asked.lo)
        /\ line' = Append(<<>>, Box(1, Here.w, Here.h, Asked)) /\ ~AtEnd
        /\ Here.kind \in {"char", "graph"} /\ st = "set" /\ Setting({"char", "graph", "break"})
        BY <1>2 DEF SetOnNextLine, Setting, document, place, Dup
  <2>2. Asked.lo \in Layout /\ Asked.px \in Int /\ Asked.py \in Int
        BY <2>1, AskedType
  <2>3. Box(1, Here.w, Here.h, Asked) \in BoxType
        BY <2>1, <2>2, BoxIsBox, HereType
  <2>4. line' \in Seq(BoxType)
        BY <1>b, <2>1, <2>3, AppendProperties
  <2>5. rows = <<>>
        BY <2>1, HereType DEF RowsOfTable
  <2>6. ink' \subseteq BoxType /\ ghost' \in BOOLEAN
        BY <2>1, <2>2, FlushType
  <2>7. TypeOK'
        BY <1>a, <1>c, <2>1, <2>2, <2>4, <2>6, PassedType DEF TypeOK
  <2>8. RowsOfTable'
        BY <2>1, <2>5, PassedType, RowsKept
  <2> QED BY <2>7, <2>8
<1>3. CASE SetBreak
  <2>1. /\ UNCHANGED <<items, rows, start, page, ended, st>> /\ lo' = Asked.lo /\ Passed
        /\ DrawFlush(Asked.lo) /\ line' = <<>> /\ ~AtEnd
        /\ Here.kind = "break" /\ st = "set" /\ Setting({"char", "graph", "break"})
        BY <1>3 DEF SetBreak, Setting, document, place, Dup
  <2>2. Asked.lo \in Layout
        BY <2>1, AskedType
  <2>3. rows = <<>>
        BY <2>1, HereType DEF RowsOfTable
  <2>4. ink' \subseteq BoxType /\ ghost' \in BOOLEAN
        BY <2>1, <2>2, FlushType
  <2>5. TypeOK'
        BY <1>a, <1>b, <1>c, <2>1, <2>2, <2>4, PassedType DEF TypeOK
  <2>6. RowsOfTable'
        BY <2>1, <2>3, PassedType, RowsKept
  <2> QED BY <2>5, <2>6
<1>4. CASE SkipImage
  <2>1. /\ UNCHANGED <<items, lo, line, rows, ink, ghost, start, page, ended, st>> /\ Passed
        /\ Here.kind = "broken" /\ ~AtEnd
        BY <1>4 DEF SkipImage, Setting, document, place
  <2>2. rows = <<>>
        BY <2>1, HereType DEF RowsOfTable
  <2>3. TypeOK'
        BY <1>a, <1>c, <2>1, PassedType DEF TypeOK
  <2>4. RowsOfTable'
        BY <2>1, <2>2, PassedType, RowsKept
  <2> QED BY <2>3, <2>4
<1>5. CASE SetRow
  <2>1. /\ UNCHANGED <<items, next, from, line, ink, ghost, start, page, ended, st>>
        /\ rows' = Append(rows, RowBox) /\ lo' = RowAsked.lo
        /\ Setting({"table"}) /\ from + Len(rows) # Len(Here.rows) /\ st = "set"
        BY <1>5 DEF SetRow, Setting, document, place, LastRow
  <2>2. RowAsked.lo \in Layout /\ RowBox \in BoxType
        BY <2>1, RowAskedType
  <2>3. rows' \in Seq(BoxType) /\ Len(rows') = Len(rows) + 1
        BY <1>a, <2>1, <2>2, AppendProperties
  <2>4. TypeOK'
        BY <1>a, <1>c, <2>1, <2>2, <2>3 DEF TypeOK
  <2>5. /\ items[next].kind = "table" /\ Rows(next) \in Nat /\ Len(rows) \in Nat
        /\ from + Len(rows) \in 1 .. Rows(next) /\ from + Len(rows) # Rows(next)
        BY <2>1, RowHeight
  <2>6. from + (Len(rows) + 1) <= Rows(next)
    <3>1. ASSUME NEW f \in Nat, NEW n \in Nat, NEW r \in Nat, f + n \in 1 .. r, f + n # r
          PROVE  f + (n + 1) <= r
          BY <3>1
    <3> QED BY <1>a, <2>5, <3>1
  <2>7. (Rows(next))' = Rows(next)
        BY <2>1 DEF Rows
  <2>8. \A k \in DOMAIN start : (Rows(start[k].next))' = Rows(start[k].next)
        BY <2>1 DEF Rows
  <2>9. next <= Len(items)
        BY <2>1, ItemsType, HereType DEF Setting
  <2> QED BY <2>1, <2>3, <2>4, <2>5, <2>6, <2>7, <2>8, <2>9 DEF RowsOfTable
<1>6. CASE SetLastRow
  <2>1. /\ UNCHANGED <<items, ink, ghost, start, page, ended, st>>
        /\ line' = line \o Append(rows, RowBox) /\ rows' = <<>> /\ lo' = RowAsked.lo /\ Passed
        /\ Setting({"table"}) /\ ~AtEnd
        BY <1>6 DEF SetLastRow, Setting, document, place
  <2>2. RowAsked.lo \in Layout /\ RowBox \in BoxType
        BY <2>1, RowAskedType
  <2>3. Append(rows, RowBox) \in Seq(BoxType)
        BY <1>a, <2>2, AppendProperties
  <2>4. line' \in Seq(BoxType)
        BY <1>a, <2>1, <2>3, ConcatProperties
  <2>5. TypeOK'
        BY <1>a, <1>b, <1>c, <2>1, <2>2, <2>4, PassedType DEF TypeOK
  <2>6. RowsOfTable'
        BY <2>1, PassedType, RowsKept
  <2> QED BY <2>5, <2>6
\* Steps that finish the page.
<1>7. CASE BreakPage
  <2>1. /\ UNCHANGED <<items, next, from, rows, start, page, ended>>
        /\ DrawFlush(Asked.lo) /\ line' = Freed(<<>>) /\ lo' = Reset(Asked.lo) /\ st' = "shown"
        /\ Setting({"char", "graph", "break"}) /\ ~AtEnd /\ Here.kind # "table"
        BY <1>7 DEF BreakPage, Setting, document, place, Dup
  <2>2. Asked.lo \in Layout
        BY <2>1, AskedType
  <2>3. Reset(Asked.lo) \in Layout
        BY <2>2, ResetType
  <2>4. Freed(<<>>) \in Seq(BoxType)
        BY <1>b, FreedType
  <2>5. ink' \subseteq BoxType /\ ghost' \in BOOLEAN
        BY <2>1, <2>2, FlushType
  <2>6. TypeOK'
        BY <1>a, <1>c, <2>1, <2>3, <2>4, <2>5 DEF TypeOK
  <2>7. rows = <<>>
        BY <2>1, HereType DEF RowsOfTable
  <2>8. next <= Len(items) => from <= Rows(next)
    <3>1. Len(rows) = 0
          BY <2>7
    <3>2. from + 0 = from
          BY <1>a
    <3> QED BY <3>1, <3>2 DEF RowsOfTable
  <2>9. RowsOfTable'
        BY <1>a, <2>1, <2>7, <2>8, RowsKept
  <2> QED BY <2>6, <2>9
<1>8. CASE BreakTable
  <2>1. /\ UNCHANGED <<items, next, ghost, start, page, ended>>
        /\ ink' = ink \cup {rows[k] : k \in RowsDrawn}
        /\ from' = from + RowSplit /\ rows' = <<>>
        /\ line' = Freed(<<>>) /\ lo' = RowAsked.lo /\ st' = "shown"
        /\ Setting({"table"})
        BY <1>8 DEF BreakTable, Setting, document, place, Dup
  <2>2. RowAsked.lo \in Layout
        BY <2>1, RowAskedType
  <2>3. Freed(<<>>) \in Seq(BoxType)
        BY <1>b, FreedType
  <2>4. Len(rows) \in Nat /\ DOMAIN rows = 1 .. Len(rows) /\ \A k \in DOMAIN rows : rows[k] \in BoxType
        BY <1>a, LenProperties, ElementOfSeq
  <2>5. RowSplit \in Nat /\ RowSplit <= Len(rows)
        BY <2>4 DEF RowSplit
  <2>6. RowsDrawn \subseteq DOMAIN rows
        BY <2>4, <2>5 DEF RowsDrawn
  <2>7. ink' \subseteq BoxType
        BY <1>a, <2>1, <2>4, <2>6
  <2>8. from' \in Nat \ {0}
        BY <1>a, <2>1, <2>5
  <2>9. TypeOK'
        BY <1>a, <1>b, <1>c, <2>1, <2>2, <2>3, <2>7, <2>8 DEF TypeOK
  <2>10. from + Len(rows) \in 1 .. Rows(next) /\ Rows(next) \in Nat
        BY <2>1, RowHeight
  <2>11. from + RowSplit <= Rows(next)
        BY <1>a, <2>4, <2>5, <2>10
  <2>12. RowsOfTable'
        BY <1>a, <2>1, <2>8, <2>11, RowsKept
  <2> QED BY <2>9, <2>12
<1>9. CASE EndDocument
  <2>1. /\ UNCHANGED <<items, next, from, lo, rows, start, page>>
        /\ DrawFlush(lo) /\ line' = Freed(line) /\ ended' = TRUE /\ st' = "shown" /\ AtEnd
        BY <1>9 DEF EndDocument, document, place
  <2>2. Freed(line) \in Seq(BoxType)
        BY <1>a, FreedType
  <2>3. ink' \subseteq BoxType /\ ghost' \in BOOLEAN
        BY <1>a, <2>1, FlushType
  <2>4. TypeOK'
        BY <1>a, <1>c, <2>1, <2>2, <2>3 DEF TypeOK
  <2>5. ~(next <= Len(items))
        BY <1>a, <1>b, <2>1 DEF AtEnd
  <2>6. rows = <<>>
        BY <2>5 DEF RowsOfTable
  <2>7. RowsOfTable'
        BY <1>a, <2>1, <2>5, <2>6, RowsKept
  <2> QED BY <2>4, <2>7
\* The client's steps.
<1>10. CASE NextPage
  <2> DEFINE e == [next |-> next, from |-> from]
             E == [next : 1 .. Len(items) + 1, from : Nat \ {0}]
  <2>1. /\ UNCHANGED <<items, next, from, lo, line, rows, ghost, ended>> /\ st = "shown"
        /\ page' = page + 1 /\ start' = Append(start, e) /\ ink' = {} /\ st' = "set"
        BY <1>10 DEF NextPage, document
  <2>2. e \in E
        BY <1>a
  <2> HIDE DEF e
  <2>3. /\ start' \in Seq(E) /\ Len(start') = Len(start) + 1 /\ start'[Len(start) + 1] = e
        /\ \A k \in 1 .. Len(start) : start'[k] = start[k]
        BY <1>a, <2>1, <2>2, AppendProperties
  <2>4. /\ Len(start) \in Nat /\ DOMAIN start = 1 .. Len(start) /\ page \in 1 .. Len(start)
        /\ DOMAIN start' = 1 .. Len(start')
        BY <2>3, LenProperties, StartType
  <2>4a. DOMAIN start' = 1 .. (Len(start) + 1)
        BY <2>3, <2>4, Zenon
  <2>4b. \A n \in Nat : \A k \in 1 .. n + 1 : k \in 1 .. n \/ k = n + 1
        OBVIOUS
  <2>4c. \A n \in Nat : \A k \in 1 .. n : k + 1 \in 1 .. n + 1
        OBVIOUS
  <2>5. page + 1 \in DOMAIN start'
        BY <2>4, <2>4a, <2>4c, Zenon
  <2>6. TypeOK'
        BY <1>a, <1>c, <2>1, <2>3, <2>5 DEF TypeOK
  <2>7. rows = <<>>
        BY <2>1 DEF RowsOfTable
  <2>8. next <= Len(items) => from <= Rows(next)
    <3>1. Len(rows) = 0
          BY <2>7
    <3>2. from + 0 = from
          BY <1>a
    <3> QED BY <3>1, <3>2 DEF RowsOfTable
  <2>9. \A i : (Rows(i))' = Rows(i)
        BY <2>1 DEF Rows
  <2>10. ASSUME NEW k \in DOMAIN start', start'[k].next <= Len(items)
         PROVE  start'[k].from <= Rows(start'[k].next)
    <3>1. CASE k \in 1 .. Len(start)
          BY <2>3, <2>4, <2>10, <3>1 DEF RowsOfTable
    <3>2. CASE k = Len(start) + 1
      <4>1. start'[k] = e
            BY <2>3, <3>2
      <4> QED BY <2>8, <2>10, <4>1 DEF e
    <3> QED BY <2>4, <2>4a, <2>4b, <3>1, <3>2, Zenon
  <2>11. Len(rows') = Len(rows)
        BY <2>1
  <2>12. RowsOfTable'
        BY <2>1, <2>7, <2>9, <2>10, <2>11 DEF RowsOfTable
  <2> QED BY <2>6, <2>12
<1>11. CASE \E p \in 1 .. MaxPages : EarlierPage(p)
  <2>1. PICK p \in DOMAIN start :
          /\ UNCHANGED <<items, line, rows, ghost, start, ended>> /\ st = "shown"
          /\ page' = p /\ next' = start[p].next /\ from' = start[p].from
          /\ lo' = Reset(lo) /\ ink' = {} /\ st' = "set"
        BY <1>11 DEF EarlierPage, document
  <2>2. start[p] \in [next : 1 .. Len(items) + 1, from : Nat \ {0}]
        BY StartType
  <2>3. Reset(lo) \in Layout
        BY <1>a, ResetType
  <2>4. TypeOK'
        BY <1>a, <1>c, <2>1, <2>2, <2>3 DEF TypeOK
  <2>5. rows = <<>>
        BY <2>1 DEF RowsOfTable
  <2>6. next' <= Len(items) => from' <= Rows(next')
        BY <2>1 DEF RowsOfTable
  <2>7. RowsOfTable'
        BY <2>1, <2>2, <2>5, <2>6, RowsKept
  <2> QED BY <2>4, <2>7
<1>12. CASE UNCHANGED vars
  <2>1. UNCHANGED <<items, next, from, lo, line, rows, ink, ghost, start, page, ended, st>>
        BY <1>12 DEF vars, document, place
  <2>2. \A i : (Rows(i))' = Rows(i)
        BY <2>1 DEF Rows
  <2>3. TypeOK'
        BY <1>a, <1>c, <2>1 DEF TypeOK
  <2>4. RowsOfTable'
        BY <2>1, <2>2 DEF RowsOfTable
  <2> QED BY <2>3, <2>4
<1> QED BY <1>1, <1>2, <1>3, <1>4, <1>5, <1>6, <1>7, <1>8, <1>9, <1>10, <1>11, <1>12 DEF Next

\* Every variable keeps its type: every box on a line, among the rows of a
\* table or drawn belongs to an item of the document, and no page begins
\* behind the last row of a table.
THEOREM TypesetterTypes == Spec => []TypeOK
BY TypesInit, TypesNext, PTL DEF Spec

-----------------------------------------------------------------------------
(* Lines as sets of boxes.                                                  *)

Boxes(s) == {s[k] : k \in DOMAIN s}

Live(s) == {g \in Boxes(s) : g.live}

LEMMA BoxesEmpty == Boxes(<<>>) = {} /\ Boxes(Freed(<<>>)) = {}
BY DEF Boxes, Freed

LEMMA BoxesAppend ==
  ASSUME NEW s \in Seq(BoxType), NEW e \in BoxType
  PROVE  Boxes(Append(s, e)) = Boxes(s) \cup {e}
<1>1. /\ Append(s, e) \in Seq(BoxType) /\ Len(Append(s, e)) = Len(s) + 1
      /\ \A i \in 1 .. Len(s) : Append(s, e)[i] = s[i]
      /\ Append(s, e)[Len(s) + 1] = e
      BY AppendProperties
<1>2. Len(s) \in Nat /\ DOMAIN s = 1 .. Len(s) /\ DOMAIN Append(s, e) = 1 .. Len(s) + 1
      BY <1>1, LenProperties
<1>3. \A n \in Nat : 1 .. n + 1 = (1 .. n) \cup {n + 1}
      OBVIOUS
<1>4. DOMAIN Append(s, e) = DOMAIN s \cup {Len(s) + 1}
      BY <1>2, <1>3, Zenon
<1>5. \A k \in DOMAIN s : Append(s, e)[k] = s[k]
      BY <1>1, <1>2, Zenon
<1>6. {Append(s, e)[k] : k \in DOMAIN s \cup {Len(s) + 1}}
        = {s[k] : k \in DOMAIN s} \cup {Append(s, e)[Len(s) + 1]}
      BY <1>5
<1> QED BY <1>1, <1>4, <1>6, Zenon DEF Boxes

LEMMA BoxesConcat ==
  ASSUME NEW s \in Seq(BoxType), NEW t \in Seq(BoxType)
  PROVE  Boxes(s \o t) = Boxes(s) \cup Boxes(t)
<1>1. /\ Len(s \o t) = Len(s) + Len(t) /\ s \o t \in Seq(BoxType)
      /\ \A i \in 1 .. Len(s) + Len(t) :
           (s \o t)[i] = IF i <= Len(s) THEN s[i] ELSE t[i - Len(s)]
      BY ConcatProperties
<1>2. /\ Len(s) \in Nat /\ DOMAIN s = 1 .. Len(s) /\ Len(t) \in Nat /\ DOMAIN t = 1 .. Len(t)
      /\ DOMAIN (s \o t) = 1 .. Len(s) + Len(t)
      BY <1>1, LenProperties
<1> DEFINE c == s \o t
           m == Len(s)
           n == Len(t)
<1> HIDE DEF c, m, n
<1>3. m \in Nat /\ n \in Nat /\ DOMAIN s = 1 .. m /\ DOMAIN t = 1 .. n /\ DOMAIN c = 1 .. m + n
      BY <1>2 DEF c, m, n
<1>4. \A i \in 1 .. m + n : c[i] = IF i <= m THEN s[i] ELSE t[i - m]
      BY <1>1 DEF c, m, n
<1>6. \A i \in 1 .. m + n : (i \in DOMAIN s /\ c[i] = s[i]) \/ (i - m \in DOMAIN t /\ c[i] = t[i - m])
  <2>1. \A i \in 1 .. m + n : (i <= m => i \in 1 .. m) /\ (~(i <= m) => i - m \in 1 .. n)
        BY <1>3
  <2> QED BY <1>3, <1>4, <2>1, Zenon
<1>7. \A i \in DOMAIN s : i \in DOMAIN c /\ c[i] = s[i]
  <2>1. \A i \in 1 .. m : i \in 1 .. m + n /\ i <= m
        BY <1>3
  <2> QED BY <1>3, <1>4, <2>1, Zenon
<1>8. \A i \in DOMAIN t : m + i \in DOMAIN c /\ c[m + i] = t[i]
  <2>1. \A i \in 1 .. n : m + i \in 1 .. m + n /\ ~(m + i <= m) /\ (m + i) - m = i
        BY <1>3
  <2> QED BY <1>3, <1>4, <2>1, Zenon
<1>9. Boxes(c) = Boxes(s) \cup Boxes(t)
  <2>1. ASSUME NEW g \in Boxes(c) PROVE g \in Boxes(s) \cup Boxes(t)
    <3>1. PICK i \in 1 .. m + n : g = c[i]
          BY <1>3, Zenon DEF Boxes
    <3> QED BY <1>6, <3>1, Zenon DEF Boxes
  <2>2. ASSUME NEW g \in Boxes(s) PROVE g \in Boxes(c)
        BY <1>7, Zenon DEF Boxes
  <2>3. ASSUME NEW g \in Boxes(t) PROVE g \in Boxes(c)
        BY <1>8, Zenon DEF Boxes
  <2> QED BY <2>1, <2>2, <2>3, Zenon
<1> QED BY <1>9 DEF c

LEMMA BoxesFreed ==
  ASSUME NEW s \in Seq(BoxType)
  PROVE  Live(Freed(s)) = {}
BY FreedType DEF Live, Boxes

-----------------------------------------------------------------------------
(* The line refers to glyphs that exist.                                    *)

\* The rows in hand are those from where the parser stands.
RowsInHand ==
  \A k \in DOMAIN rows : rows[k].item = next /\ rows[k].row = from + (k - 1) /\ rows[k].live

LEMMA BoxFields ==
  ASSUME NEW row, NEW w, NEW h, NEW r
  PROVE  Box(row, w, h, r).item = next /\ Box(row, w, h, r).row = row /\ Box(row, w, h, r).live
BY DEF Box

LEMMA RowsInHandNext ==
  ASSUME TypeOK, RowsOfTable, RowsInHand, [Next]_vars
  PROVE  RowsInHand'
<1>1. CASE rows' = <<>>
      BY <1>1 DEF RowsInHand
<1>2. CASE SetRow
  <2>1. /\ UNCHANGED <<next, from>> /\ Setting({"table"}) /\ rows' = Append(rows, RowBox)
        BY <1>2 DEF SetRow
  <2>2. RowBox \in BoxType /\ rows \in Seq(BoxType)
        BY <2>1, RowAskedType DEF TypeOK
  <2>3. RowBox.item = next /\ RowBox.row = from + Len(rows) /\ RowBox.live
        BY BoxFields DEF RowBox
  <2>4. /\ rows' \in Seq(BoxType) /\ Len(rows') = Len(rows) + 1
        /\ \A i \in 1 .. Len(rows) : rows'[i] = rows[i]
        /\ rows'[Len(rows) + 1] = RowBox
        BY <2>1, <2>2, AppendProperties
  <2>5. /\ Len(rows) \in Nat /\ DOMAIN rows = 1 .. Len(rows) /\ DOMAIN rows' = 1 .. Len(rows) + 1
        BY <2>2, <2>4, LenProperties
  <2>6. \A n \in Nat : \A k \in 1 .. n + 1 : k \in 1 .. n \/ k = n + 1
        OBVIOUS
  <2>7. \A n \in Nat : (n + 1) - 1 = n
        OBVIOUS
  <2>8. from + ((Len(rows) + 1) - 1) = from + Len(rows)
        BY <2>5, <2>7
  <2>9. ASSUME NEW k \in DOMAIN rows'
        PROVE  rows'[k].item = next /\ rows'[k].row = from + (k - 1) /\ rows'[k].live
    <3>1. CASE k \in DOMAIN rows
          BY <2>4, <2>5, <3>1 DEF RowsInHand
    <3>2. CASE k = Len(rows) + 1
          BY <2>3, <2>4, <2>8, <3>2, Zenon
    <3> QED BY <2>5, <2>6, <3>1, <3>2, Zenon
  <2> QED BY <2>1, <2>9 DEF RowsInHand
<1>3. CASE UNCHANGED <<rows, next, from>>
      BY <1>3 DEF RowsInHand
<1>4. CASE UNCHANGED rows /\ (Setting({"char", "graph", "break", "broken"}) \/ st = "shown")
  <2>1. rows = <<>>
    <3>1. CASE st = "shown"
          BY <3>1 DEF RowsOfTable
    <3>2. CASE Setting({"char", "graph", "break", "broken"})
          BY <3>2, HereType DEF RowsOfTable, Setting
    <3> QED BY <1>4, <3>1, <3>2
  <2> QED BY <1>1, <1>4, <2>1
<1> QED BY <1>1, <1>2, <1>3, <1>4
        DEF Next, vars, document, place, Setting, SetOnLine, SetOnNextLine, SetBreak, SkipImage,
            BreakPage, SetLastRow, BreakTable, EndDocument, NextPage, EarlierPage

\* Before the end of the document is reached the line holds no freed glyph.
LiveLine == ~ended => ~ghost /\ \A g \in Boxes(line) : g.live

LEMMA LiveLineNext ==
  ASSUME TypeOK, RowsOfTable, RowsInHand, LiveLine, [Next]_vars
  PROVE  LiveLine'
<1>1. SUFFICES ASSUME ~ended' PROVE ~ghost' /\ \A g \in Boxes(line') : g.live
      BY DEF LiveLine, Boxes
<1>2. ~ended /\ ~ghost /\ (\A g \in Boxes(line) : g.live)
  <2>1. ~ended
        BY <1>1 DEF TypeOK, Next, vars, document, place, SetOnLine, SetOnNextLine, SetBreak,
                    SkipImage, BreakPage, SetRow, SetLastRow, BreakTable, EndDocument, NextPage,
                    EarlierPage
  <2> QED BY <2>1 DEF LiveLine
<1>3. ASSUME NEW after, DrawFlush(after) PROVE ~ghost'
  <2>1. \A k \in DOMAIN line : line[k].live
        BY <1>2 DEF Boxes
  <2> QED BY <1>2, <1>3, <2>1 DEF DrawFlush
<1>4. line \in Seq(BoxType) /\ <<>> \in Seq(BoxType) /\ rows \in Seq(BoxType)
      BY EmptySeq DEF TypeOK
<1>5. ASSUME Setting({"char", "graph", "break"}), Here.kind # "break"
      PROVE  Box(1, Here.w, Here.h, Asked) \in BoxType /\ Box(1, Here.w, Here.h, Asked).live
      BY <1>5, AskedType, HereType, BoxIsBox, BoxFields DEF Setting
<1>6. CASE SetOnLine
  <2>1. Setting({"char", "graph", "break"}) /\ Here.kind # "break"
        BY <1>6 DEF SetOnLine, Setting
  <2>2. line' = Append(line, Box(1, Here.w, Here.h, Asked)) /\ ghost' = ghost
        BY <1>6 DEF SetOnLine
  <2>3. Boxes(line') = Boxes(line) \cup {Box(1, Here.w, Here.h, Asked)}
        BY <1>4, <1>5, <2>1, <2>2, BoxesAppend
  <2> QED BY <1>2, <1>5, <2>1, <2>2, <2>3
<1>7. CASE SetOnNextLine
  <2>1. Setting({"char", "graph", "break"}) /\ Here.kind # "break"
        BY <1>7 DEF SetOnNextLine, Setting
  <2>2. line' = Append(<<>>, Box(1, Here.w, Here.h, Asked)) /\ ~ghost'
        BY <1>3, <1>7 DEF SetOnNextLine, Dup
  <2>3. Boxes(line') = Boxes(<<>>) \cup {Box(1, Here.w, Here.h, Asked)}
        BY <1>4, <1>5, <2>1, <2>2, BoxesAppend
  <2> QED BY <1>5, <2>1, <2>2, <2>3, BoxesEmpty
<1>8. CASE SetBreak \/ BreakPage
  <2>1. (line' = <<>> \/ line' = Freed(<<>>)) /\ ~ghost'
        BY <1>3, <1>8 DEF SetBreak, BreakPage, Dup
  <2> QED BY <2>1, BoxesEmpty
<1>9. CASE SetLastRow
  <2>1. Setting({"table"}) /\ line' = line \o Append(rows, RowBox) /\ ghost' = ghost
        BY <1>9 DEF SetLastRow
  <2>2. RowBox \in BoxType /\ RowBox.live
        BY <2>1, RowAskedType, BoxFields DEF RowBox
  <2>3. Append(rows, RowBox) \in Seq(BoxType) /\ Boxes(Append(rows, RowBox)) = Boxes(rows) \cup {RowBox}
        BY <1>4, <2>2, AppendProperties, BoxesAppend
  <2>4. Boxes(line') = Boxes(line) \cup (Boxes(rows) \cup {RowBox})
    <3>1. Boxes(line \o Append(rows, RowBox)) = Boxes(line) \cup Boxes(Append(rows, RowBox))
          BY <1>4, <2>3, BoxesConcat
    <3> QED BY <2>1, <2>3, <3>1, Zenon
  <2>5. \A g \in Boxes(rows) : g.live
        BY DEF RowsInHand, Boxes
  <2> QED BY <1>2, <2>1, <2>2, <2>4, <2>5
<1>10. CASE BreakTable
  <2>1. line' = Freed(<<>>) /\ ghost' = ghost
        BY <1>10, Zenon DEF BreakTable, Dup
  <2> QED BY <1>2, <2>1, BoxesEmpty
<1>11. CASE EndDocument
      BY <1>1, <1>11 DEF EndDocument
<1>12. CASE UNCHANGED <<line, ghost>>
      BY <1>2, <1>12
<1> QED BY <1>6, <1>7, <1>8, <1>9, <1>10, <1>11, <1>12
        DEF Next, vars, document, place, SkipImage, SetRow, NextPage, EarlierPage

\* Until the end of the document no glyph is drawn after it was freed: what a
\* page leaves on the line is gone with the page (Line::Dup, DeleteGlyph).
THEOREM OnlyLiveGlyphsDrawn == Spec => []DrawsLive
<1>1. Init => RowsInHand /\ LiveLine
      BY BoxesEmpty DEF Init, RowsInHand, LiveLine
<1>2. LiveLine => DrawsLive
      BY DEF LiveLine, DrawsLive
<1> QED BY <1>1, <1>2, TypesInit, TypesNext, RowsInHandNext, LiveLineNext, PTL DEF Spec

-----------------------------------------------------------------------------
(* Parts of a document.                                                     *)

Shows(i) == items[i].kind \notin {"break", "broken"}

\* The pieces from a to before b.
Between(a, b) == {p \in Pieces : ~Precedes(p, a) /\ Precedes(p, b)}

At(i, r) == [next |-> i, from |-> r]

LEMMA AtFields == \A i, r : At(i, r).next = i /\ At(i, r).from = r
BY DEF At

LEMMA PieceFields ==
  ASSUME TypeOK
  PROVE  /\ \A p \in Pieces : /\ p.next \in DOMAIN items /\ p.from \in 1 .. Rows(p.next)
                              /\ Shows(p.next) /\ p = At(p.next, p.from)
         /\ \A i \in DOMAIN items : \A r \in 1 .. Rows(i) : Shows(i) => At(i, r) \in Pieces
<1>1. ASSUME NEW p \in Pieces
      PROVE  /\ p.next \in DOMAIN items /\ p.from \in 1 .. Rows(p.next)
             /\ Shows(p.next) /\ p = At(p.next, p.from)
  <2>1. PICK i \in {k \in DOMAIN items : Shows(k)} : p \in {At(i, r) : r \in 1 .. Rows(i)}
        BY DEF Pieces, Shows, At
  <2>2. PICK r \in 1 .. Rows(i) : p = At(i, r)
        BY <2>1
  <2> QED BY <2>1, <2>2, AtFields
<1>2. ASSUME NEW i \in DOMAIN items, NEW r \in 1 .. Rows(i), Shows(i)
      PROVE  At(i, r) \in Pieces
      BY <1>2 DEF Pieces, Shows, At
<1> QED BY <1>1, <1>2

\* The pieces of one item are its rows.
LEMMA PartOfItem ==
  ASSUME TypeOK, NEW i \in DOMAIN items, Shows(i),
         NEW f \in Nat \ {0}, NEW g \in Nat, f <= g, g <= Rows(i) + 1,
         NEW a, a.next \in Nat, a.from \in Nat, ~Precedes(At(i, f), a)
  PROVE  Between(a, At(i, g)) = Between(a, At(i, f)) \cup {At(i, r) : r \in f .. (g - 1)}
<1>1. i \in Nat /\ Rows(i) \in Nat /\ \A k \in DOMAIN items : k \in Nat /\ Rows(k) \in Nat
      BY ItemsType, RowsType
<1>2. ASSUME NEW r \in f .. (g - 1) PROVE At(i, r) \in Between(a, At(i, g))
  <2>1. r \in 1 .. Rows(i) /\ r \in Nat
        BY <1>1
  <2>2. At(i, r) \in Pieces
        BY <2>1, PieceFields
  <2>3. Precedes(At(i, r), At(i, g)) /\ ~Precedes(At(i, r), a)
        BY <1>1, <2>1, AtFields DEF Precedes
  <2> QED BY <2>2, <2>3 DEF Between
<1>3. ASSUME NEW p \in Pieces, Precedes(p, At(i, f)) PROVE Precedes(p, At(i, g))
  <2>1. p.next \in Nat /\ p.from \in Nat
        BY <1>1, PieceFields
  <2> QED BY <1>1, <1>3, <2>1, AtFields DEF Precedes
<1>4. ASSUME NEW p \in Pieces, Precedes(p, At(i, g)), ~Precedes(p, At(i, f))
      PROVE  p \in {At(i, r) : r \in f .. (g - 1)}
  <2>1. p.next \in Nat /\ p.from \in Nat /\ p = At(p.next, p.from)
        BY <1>1, PieceFields
  <2>2. p.next = i /\ p.from \in f .. (g - 1)
        BY <1>1, <1>4, <2>1, AtFields DEF Precedes
  <2> QED BY <2>1, <2>2
<1> QED BY <1>2, <1>3, <1>4 DEF Between

\* After the last row of an item comes the next item.
LEMMA PartAfterItem ==
  ASSUME TypeOK, NEW i \in DOMAIN items, NEW f \in Nat \ {0},
         ~Shows(i) \/ f = Rows(i) + 1,
         NEW a
  PROVE  Between(a, At(i + 1, 1)) = Between(a, At(i, f))
<1>1. i \in Nat /\ Rows(i) \in Nat /\ \A k \in DOMAIN items : k \in Nat /\ Rows(k) \in Nat
      BY ItemsType, RowsType
<1>2. ASSUME NEW p \in Pieces
      PROVE  Precedes(p, At(i + 1, 1)) <=> Precedes(p, At(i, f))
  <2>1. /\ p.next \in Nat /\ p.from \in Nat /\ p.from >= 1 /\ p.from <= Rows(p.next)
        /\ Shows(p.next)
        BY <1>1, PieceFields
  <2>2. p.next = i => f = Rows(i) + 1
        BY <2>1
  <2> HIDE DEF Shows
  <2> QED BY <1>1, <2>1, <2>2, AtFields DEF Precedes
<1> QED BY <1>2 DEF Between

-----------------------------------------------------------------------------
(* A page shows its part of the document.                                   *)

\* A table follows a line break, or nothing.
TablesBeginLines ==
  \A d \in Documents : \A k \in DOMAIN d :
    d[k].kind = "table" /\ k > 1 => d[k - 1].kind = "break"

\* The pieces a set of boxes stands for.
Places(S) == {At(g.item, g.row) : g \in S}

\* What is drawn and what is on the line is what was taken from the parser
\* since the page began; no table is set up behind a line that holds glyphs.
PartInv ==
  /\ ~ended => page = Len(start)
  /\ ~Precedes(At(next, from), start[page])
  /\ st = "shown" => Live(line) = {}
  /\ next <= Len(items) /\ items[next].kind = "table" => Live(line) = {}
  /\ Places(ink \cup Live(line)) = Between(start[page], At(next, from))

LEMMA PlacesUnion ==
  /\ \A S, T : Places(S \cup T) = Places(S) \cup Places(T)
  /\ Places({}) = {}
  /\ \A g : Places({g}) = {At(g.item, g.row)}
BY DEF Places

\* Drawing the line moves its glyphs from the line to the page.
LEMMA FlushPlaces ==
  ASSUME TypeOK, NEW after \in Layout, DrawFlush(after)
  PROVE  Places(ink') = Places(ink \cup Live(line))
<1> DEFINE D == {Adjusted(g, after.lastBaseline) : g \in Live(line)}
<1>1. after.lastBaseline \in Int /\ line \in Seq(BoxType)
      BY FieldTypes DEF TypeOK
<1>2. \A g \in Live(line) : g \in BoxType
      BY <1>1, LenProperties, ElementOfSeq DEF Live, Boxes
<1>3. ink' = ink \cup D
      BY DEF DrawFlush, Live, Boxes
<1>4. \A g \in Live(line) : At(Adjusted(g, after.lastBaseline).item, Adjusted(g, after.lastBaseline).row)
                             = At(g.item, g.row)
      BY <1>1, <1>2, AdjustedType
<1>5. Places(D) = Places(Live(line))
      BY <1>4, Zenon DEF Places
<1> HIDE DEF D
<1>6. Places(ink') = Places(ink) \cup Places(D)
      BY <1>3, PlacesUnion
<1>7. Places(ink \cup Live(line)) = Places(ink) \cup Places(Live(line))
      BY PlacesUnion
<1> QED BY <1>5, <1>6, <1>7

\* The first n rows in hand.
LEMMA RowPlaces ==
  ASSUME TypeOK, RowsInHand, NEW n \in Nat, n <= Len(rows)
  PROVE  Places({rows[k] : k \in 1 .. n}) = {At(next, r) : r \in from .. (from + n - 1)}
<1>1. rows \in Seq(BoxType) /\ from \in Nat /\ Len(rows) \in Nat /\ DOMAIN rows = 1 .. Len(rows)
      BY LenProperties DEF TypeOK
<1>1a. \A k \in 1 .. n : k \in DOMAIN rows
      BY <1>1
<1>2. \A k \in 1 .. n : rows[k].item = next /\ rows[k].row = from + (k - 1)
      BY <1>1a, Zenon DEF RowsInHand
<1>3. \A k \in 1 .. n : from + (k - 1) \in from .. (from + n - 1)
      BY <1>1
<1>4. \A r \in from .. (from + n - 1) : r - from + 1 \in 1 .. n /\ r = from + ((r - from + 1) - 1)
      BY <1>1
<1>5. ASSUME NEW x \in Places({rows[k] : k \in 1 .. n})
      PROVE  x \in {At(next, r) : r \in from .. (from + n - 1)}
  <2>1. PICK k \in 1 .. n : x = At(rows[k].item, rows[k].row)
        BY DEF Places
  <2> QED BY <1>2, <1>3, <2>1
<1>6. ASSUME NEW r \in from .. (from + n - 1)
      PROVE  At(next, r) \in Places({rows[k] : k \in 1 .. n})
  <2> DEFINE k == r - from + 1
  <2>1. k \in 1 .. n /\ r = from + (k - 1)
        BY <1>4
  <2> HIDE DEF k
  <2>2. At(next, r) = At(rows[k].item, rows[k].row)
        BY <1>2, <2>1
  <2> QED BY <2>1, <2>2 DEF Places
<1> QED BY <1>5, <1>6

\* Only a table can be left in the middle.
LEMMA FromOne ==
  ASSUME TypeOK, RowsOfTable, ~AtEnd, items[next].kind # "table"
  PROVE  from = 1 /\ rows = <<>> /\ Rows(next) = 1
<1>1. next <= Len(items) /\ from \in Nat \ {0} /\ rows = <<>>
      BY HereType, ItemsType, SMTT(30) DEF TypeOK, RowsOfTable
<1>2. Len(rows) = 0
      BY <1>1
<1>3. from + 0 = from
      BY <1>1
<1>4. Rows(next) = 1
      BY DEF Rows
<1>5. from + Len(rows) <= Rows(next)
      BY <1>1 DEF RowsOfTable
<1>6. from <= 1
      BY <1>2, <1>3, <1>4, <1>5
<1> QED BY <1>1, <1>4, <1>6

LEMMA LivesOf ==
  /\ Live(<<>>) = {} /\ Live(Freed(<<>>)) = {}
  /\ \A s \in Seq(BoxType) : Live(Freed(s)) = {}
  /\ \A s \in Seq(BoxType) : \A e \in BoxType : e.live => Live(Append(s, e)) = Live(s) \cup {e}
  /\ \A s, t \in Seq(BoxType) : Live(s \o t) = Live(s) \cup Live(t)
<1>1. Live(<<>>) = {} /\ Live(Freed(<<>>)) = {}
      BY BoxesEmpty DEF Live
<1>2. \A s \in Seq(BoxType) : \A e \in BoxType : e.live => Live(Append(s, e)) = Live(s) \cup {e}
      BY BoxesAppend, Zenon DEF Live
<1>3. \A s, t \in Seq(BoxType) : Live(s \o t) = Live(s) \cup Live(t)
      BY BoxesConcat, Zenon DEF Live
<1> QED BY <1>1, <1>2, <1>3, BoxesFreed

\* A step that takes an item that is no table from the parser keeps the
\* invariant when it places the item, if it shows, and nothing else.
LEMMA PartTaken ==
  ASSUME TypeOK, RowsOfTable, PartInv, TablesBeginLines,
         UNCHANGED <<items, start, page, ended, st>>, st = "set", ~AtEnd, Passed,
         items[next].kind # "table",
         Places(ink' \cup Live(line')) = Places(ink \cup Live(line))
             \cup (IF Shows(next) THEN {At(next, 1)} ELSE {}),
         items[next].kind = "break" => Live(line') = {}
  PROVE  PartInv'
<1>1. /\ next \in DOMAIN items /\ next \in Nat /\ Len(items) \in Nat /\ DOMAIN items = 1 .. Len(items)
      /\ from = 1 /\ Rows(next) = 1
      BY HereType, ItemsType, FromOne
<1>2. next' = next + 1 /\ from' = 1
      BY DEF Passed
<1> DEFINE a == start[page]
<1>3. a.next \in Nat /\ a.from \in Nat
      BY StartType
<1>4. ~Precedes(At(next, 1), a)
      BY <1>1 DEF PartInv
<1> HIDE DEF a
<1>5. ~Precedes(At(next + 1, 1), a)
      BY <1>1, <1>3, <1>4, AtFields DEF Precedes
<1>8. Places(ink' \cup Live(line')) = Between(a, At(next + 1, 1))
  <2>1. CASE Shows(next)
    <3>1. Between(a, At(next + 1, 1)) = Between(a, At(next, 2))
          BY <1>1, PartAfterItem
    <3>2. Between(a, At(next, 2)) = Between(a, At(next, 1)) \cup {At(next, r) : r \in 1 .. (2 - 1)}
          BY <1>1, <1>3, <1>4, <2>1, PartOfItem
    <3>3. {At(next, r) : r \in 1 .. (2 - 1)} = {At(next, 1)}
          OBVIOUS
    <3> QED BY <1>1, <2>1, <3>1, <3>2, <3>3, Zenon DEF PartInv, a
  <2>2. CASE ~Shows(next)
    <3>1. Between(a, At(next + 1, 1)) = Between(a, At(next, 1))
          BY <1>1, <2>2, PartAfterItem
    <3> QED BY <1>1, <2>2, <3>1, Zenon DEF PartInv, a
  <2> QED BY <2>1, <2>2
<1>9. ASSUME next' <= Len(items), items[next'].kind = "table" PROVE Live(line') = {}
  <2>1. next' \in DOMAIN items /\ next' > 1 /\ next' - 1 = next
        BY <1>1, <1>2, <1>9
  <2>2. items \in Documents
        BY DEF TypeOK
  <2>3. items[next' - 1].kind = "break"
        BY <1>9, <2>1, <2>2 DEF TablesBeginLines
  <2> QED BY <2>1, <2>3
<1>10. (Between(start[page], At(next, from)))' = Between(a, At(next + 1, 1))
       BY <1>2 DEF Between, Pieces, Rows, a
<1> QED BY <1>2, <1>5, <1>8, <1>9, <1>10 DEF PartInv, a

LEMMA PartInvNext ==
  ASSUME TypeOK, RowsOfTable, RowsInHand, PartInv, TablesBeginLines, [Next]_vars
  PROVE  PartInv'
<1>a. line \in Seq(BoxType) /\ <<>> \in Seq(BoxType) /\ rows \in Seq(BoxType) /\ lo \in Layout
      BY EmptySeq DEF TypeOK
<1>b. UNCHANGED items => \A x, y : (Between(x, y))' = Between(x, y)
      BY DEF Between, Pieces, Rows, Precedes
<1>c. \A i : Shows(i) <=> items[i].kind \notin {"break", "broken"}
      BY DEF Shows
<1>d. ASSUME Setting({"char", "graph", "break"}), Here.kind # "break"
      PROVE  /\ Box(1, Here.w, Here.h, Asked) \in BoxType
             /\ Box(1, Here.w, Here.h, Asked).live
             /\ Places({Box(1, Here.w, Here.h, Asked)}) = {At(next, 1)}
      BY <1>d, AskedType, HereType, BoxIsBox, BoxFields, PlacesUnion DEF Setting
<1>1. CASE SetOnLine
  <2> DEFINE g == Box(1, Here.w, Here.h, Asked)
  <2>1. /\ UNCHANGED <<items, ink, start, page, ended, st>> /\ Passed /\ line' = Append(line, g)
        /\ Here.kind \in {"char", "graph"} /\ ~AtEnd /\ st = "set"
        /\ Setting({"char", "graph", "break"})
        BY <1>1 DEF SetOnLine, Setting, document, place
  <2>2. g \in BoxType /\ g.live /\ Places({g}) = {At(next, 1)}
        BY <1>d, <2>1
  <2>3. items[next].kind \in {"char", "graph"}
        BY <2>1, HereType
  <2> HIDE DEF g
  <2>4. Live(line') = Live(line) \cup {g}
        BY <1>a, <2>1, <2>2, LivesOf
  <2>5. ink' \cup Live(line') = (ink \cup Live(line)) \cup {g}
        BY <2>1, <2>4
  <2>6. Places(ink' \cup Live(line')) = Places(ink \cup Live(line)) \cup {At(next, 1)}
        BY <2>2, <2>5, PlacesUnion
  <2>7. Shows(next)
        BY <1>c, <2>3
  <2> QED BY <2>1, <2>3, <2>6, <2>7, PartTaken
<1>2. CASE SetOnNextLine
  <2> DEFINE g == Box(1, Here.w, Here.h, Asked)
  <2>1. /\ UNCHANGED <<items, start, page, ended, st>> /\ Passed /\ line' = Append(<<>>, g)
        /\ DrawFlush(Asked.lo)
        /\ Here.kind \in {"char", "graph"} /\ ~AtEnd /\ st = "set"
        /\ Setting({"char", "graph", "break"})
        BY <1>2 DEF SetOnNextLine, Setting, document, place, Dup
  <2>2. g \in BoxType /\ g.live /\ Places({g}) = {At(next, 1)}
        BY <1>d, <2>1
  <2>3. items[next].kind \in {"char", "graph"}
        BY <2>1, HereType
  <2> HIDE DEF g
  <2>4. Live(line') = {g}
    <3>1. Live(Append(<<>>, g)) = Live(<<>>) \cup {g}
          BY <1>a, <2>2, LivesOf
    <3> QED BY <2>1, <3>1, LivesOf
  <2>5. Places(ink') = Places(ink \cup Live(line))
        BY <2>1, AskedType, FlushPlaces
  <2>6. Places(ink' \cup Live(line')) = Places(ink \cup Live(line)) \cup {At(next, 1)}
        BY <2>2, <2>4, <2>5, PlacesUnion
  <2>7. Shows(next)
        BY <1>c, <2>3
  <2> QED BY <2>1, <2>3, <2>6, <2>7, PartTaken
<1>3. CASE SetBreak
  <2>1. /\ UNCHANGED <<items, start, page, ended, st>> /\ Passed /\ line' = <<>>
        /\ DrawFlush(Asked.lo)
        /\ Here.kind = "break" /\ ~AtEnd /\ st = "set"
        /\ Setting({"char", "graph", "break"})
        BY <1>3 DEF SetBreak, Setting, document, place, Dup
  <2>2. items[next].kind = "break"
        BY <2>1, HereType
  <2>3. Live(line') = {}
        BY <2>1, LivesOf
  <2>4. Places(ink') = Places(ink \cup Live(line))
        BY <2>1, AskedType, FlushPlaces
  <2>5. Places(ink' \cup Live(line')) = Places(ink \cup Live(line)) \cup {}
        BY <2>3, <2>4
  <2>6. ~Shows(next)
        BY <1>c, <2>2
  <2> QED BY <2>1, <2>2, <2>3, <2>5, <2>6, PartTaken
<1>4. CASE SkipImage
  <2>1. /\ UNCHANGED <<items, line, ink, start, page, ended, st>> /\ Passed
        /\ Here.kind = "broken" /\ ~AtEnd /\ st = "set"
        BY <1>4 DEF SkipImage, Setting, document, place
  <2>2. items[next].kind = "broken"
        BY <2>1, HereType
  <2>3. Live(line') = Live(line)
        BY <2>1
  <2>4. Places(ink' \cup Live(line')) = Places(ink \cup Live(line)) \cup {}
        BY <2>1, <2>3
  <2>5. ~Shows(next)
        BY <1>c, <2>2
  <2> QED BY <2>1, <2>2, <2>4, <2>5, PartTaken
<1>5. CASE UNCHANGED <<items, next, from, line, ink, start, page, ended, st>>
  <2>1. (Between(start[page], At(next, from)))' = Between(start[page], At(next, from))
        BY <1>5, <1>b
  <2>2. Live(line') = Live(line)
        BY <1>5
  <2> QED BY <1>5, <2>1, <2>2 DEF PartInv
<1>6. CASE SetLastRow
  <2>1. /\ UNCHANGED <<items, ink, start, page, ended, st>> /\ Passed
        /\ line' = line \o Append(rows, RowBox)
        /\ Setting({"table"}) /\ ~AtEnd /\ st = "set" /\ from + Len(rows) = Len(Here.rows)
        BY <1>6 DEF SetLastRow, Setting, document, place, LastRow
  <2>2. /\ items[next].kind = "table" /\ Rows(next) = Len(Here.rows) /\ Rows(next) \in Nat
        /\ Len(rows) \in Nat
        BY <2>1, RowHeight
  <2>3. next \in DOMAIN items /\ next \in Nat /\ from \in Nat \ {0} /\ DOMAIN items = 1 .. Len(items)
        /\ Len(items) \in Nat
    <3>1. next \in DOMAIN items /\ DOMAIN items = 1 .. Len(items) /\ Len(items) \in Nat
          BY <2>1, HereType, ItemsType, Zenon
    <3>2. from \in Nat \ {0}
          BY DEF TypeOK
    <3> QED BY <3>1, <3>2
  <2>4. RowBox \in BoxType /\ RowBox.live /\ RowBox.item = next /\ RowBox.row = from + Len(rows)
        BY <2>1, RowAskedType, BoxFields DEF RowBox
  <2>5. Live(Append(rows, RowBox)) = Live(rows) \cup {RowBox} /\ Append(rows, RowBox) \in Seq(BoxType)
        BY <1>a, <2>4, LivesOf, AppendProperties
  <2>6. Live(line \o Append(rows, RowBox)) = Live(line) \cup Live(Append(rows, RowBox))
        BY <1>a, <2>5, LivesOf
  <2>7. Live(line') = Live(line) \cup (Live(rows) \cup {RowBox})
        BY <2>1, <2>5, <2>6
  <2>8. Live(rows) = {rows[k] : k \in 1 .. Len(rows)}
    <3>1. DOMAIN rows = 1 .. Len(rows)
          BY <1>a, LenProperties
    <3> QED BY <3>1 DEF Live, Boxes, RowsInHand
  <2>9. Places(Live(rows)) = {At(next, r) : r \in from .. (from + Len(rows) - 1)}
        BY <2>2, <2>8, RowPlaces
  <2>10. Places({RowBox}) = {At(next, from + Len(rows))}
        BY <2>4, PlacesUnion
  <2>11. ink' \cup Live(line') = (ink \cup Live(line)) \cup (Live(rows) \cup {RowBox})
        BY <2>1, <2>7
  <2>12. Places(ink' \cup Live(line')) =
           Places(ink \cup Live(line)) \cup (Places(Live(rows)) \cup Places({RowBox}))
    <3>1. Places(Live(rows) \cup {RowBox}) = Places(Live(rows)) \cup Places({RowBox})
          BY PlacesUnion
    <3>2. Places((ink \cup Live(line)) \cup (Live(rows) \cup {RowBox}))
            = Places(ink \cup Live(line)) \cup Places(Live(rows) \cup {RowBox})
          BY PlacesUnion
    <3> QED BY <2>11, <3>1, <3>2
  <2>13. from .. (from + Len(rows)) = (from .. (from + Len(rows) - 1)) \cup {from + Len(rows)}
        BY <2>2, <2>3
  <2>14. Places(ink' \cup Live(line')) =
           Places(ink \cup Live(line)) \cup {At(next, r) : r \in from .. (from + Len(rows))}
        BY <2>9, <2>10, <2>12, <2>13, Zenon
  <2> DEFINE a == start[page]
             g == from + Len(rows) + 1
  <2>15. a.next \in Nat /\ a.from \in Nat /\ ~Precedes(At(next, from), a)
        BY StartType DEF PartInv
  <2> HIDE DEF a
  <2>16. Shows(next)
        BY <1>c, <2>2
  <2>17. g \in Nat \ {0} /\ from <= g /\ g = Rows(next) + 1 /\ g - 1 = from + Len(rows)
    <3>1. from + Len(rows) = Rows(next)
          BY <2>1, <2>2
    <3> QED BY <2>2, <2>3, <3>1
  <2> HIDE DEF g
  <2>18. Between(a, At(next, g)) = Between(a, At(next, from)) \cup {At(next, r) : r \in from .. (g - 1)}
    <3>1. g \in Nat /\ from <= g /\ g <= Rows(next) + 1
          BY <2>2, <2>17
    <3> QED BY <2>3, <2>15, <2>16, <3>1, PartOfItem, ZenonT(30)
  <2>19. Between(a, At(next + 1, 1)) = Between(a, At(next, g))
        BY <2>3, <2>17, PartAfterItem
  <2>20. Places(ink' \cup Live(line')) = Between(a, At(next + 1, 1))
        BY <2>14, <2>17, <2>18, <2>19, Zenon DEF PartInv, a
  <2>21. next' = next + 1 /\ from' = 1
        BY <2>1 DEF Passed
  <2>22. ~Precedes(At(next + 1, 1), a)
        BY <2>3, <2>15, AtFields DEF Precedes
  <2>23. ASSUME next' <= Len(items), items[next'].kind = "table" PROVE FALSE
    <3>1. next' \in DOMAIN items /\ next' > 1 /\ next' - 1 = next
          BY <2>3, <2>21, <2>23
    <3>2. items \in Documents
          BY DEF TypeOK
    <3>3. items[next' - 1].kind = "break"
          BY <2>23, <3>1, <3>2 DEF TablesBeginLines
    <3> QED BY <2>2, <3>1, <3>3
  <2>24. (Between(start[page], At(next, from)))' = Between(a, At(next + 1, 1))
        BY <1>b, <2>1, <2>21 DEF a
  <2>25. Len(start)' = Len(start) /\ (~ended => page = Len(start))
        BY <2>1 DEF PartInv
  <2> QED BY <2>1, <2>20, <2>21, <2>22, <2>23, <2>24, <2>25 DEF PartInv, a
<1>7. CASE BreakPage
  <2>1. /\ UNCHANGED <<items, next, from, start, page, ended>> /\ DrawFlush(Asked.lo)
        /\ line' = Freed(<<>>) /\ Setting({"char", "graph", "break"})
        BY <1>7 DEF BreakPage, document, place, Dup
  <2>2. Live(line') = {}
        BY <2>1, LivesOf
  <2>3. Places(ink') = Places(ink \cup Live(line))
        BY <2>1, AskedType, FlushPlaces
  <2>4. Places(ink' \cup Live(line')) = Places(ink \cup Live(line))
        BY <2>2, <2>3
  <2>5. (Between(start[page], At(next, from)))' = Between(start[page], At(next, from))
        BY <1>b, <2>1
  <2> QED BY <2>1, <2>2, <2>4, <2>5 DEF PartInv
<1>8. CASE BreakTable
  <2>1. /\ UNCHANGED <<items, next, start, page, ended>>
        /\ ink' = ink \cup {rows[k] : k \in 1 .. RowSplit} /\ from' = from + RowSplit
        /\ line' = Freed(<<>>) /\ Setting({"table"})
        BY <1>8 DEF BreakTable, document, place, Dup, RowsDrawn
  <2>2. /\ items[next].kind = "table" /\ Rows(next) \in Nat /\ Len(rows) \in Nat
        /\ from + Len(rows) \in 1 .. Rows(next)
        BY <2>1, RowHeight
  <2>3. next \in DOMAIN items /\ next <= Len(items) /\ from \in Nat \ {0} /\ next \in Nat
        BY <2>1, HereType, ItemsType, SMTT(30) DEF TypeOK, Setting
  <2>4. RowSplit \in Nat /\ RowSplit <= Len(rows)
        BY <2>2 DEF RowSplit
  <2>5. Live(line) = {} /\ Live(line') = {}
        BY <2>1, <2>2, <2>3, LivesOf DEF PartInv
  <2>6. Places({rows[k] : k \in 1 .. RowSplit}) = {At(next, r) : r \in from .. (from + RowSplit - 1)}
        BY <2>4, RowPlaces
  <2>7. Places(ink') = Places(ink) \cup Places({rows[k] : k \in 1 .. RowSplit})
        BY <2>1, PlacesUnion
  <2>8. Places(ink' \cup Live(line')) =
          Places(ink \cup Live(line)) \cup {At(next, r) : r \in from .. (from + RowSplit - 1)}
        BY <2>5, <2>6, <2>7
  <2> DEFINE a == start[page]
  <2>9. a.next \in Nat /\ a.from \in Nat /\ ~Precedes(At(next, from), a)
        BY StartType DEF PartInv
  <2> HIDE DEF a
  <2>10. from + RowSplit \in Nat /\ from <= from + RowSplit /\ from + RowSplit <= Rows(next) + 1
        BY <2>2, <2>3, <2>4
  <2>11. Shows(next)
        BY <1>c, <2>2
  <2>12. Between(a, At(next, from + RowSplit)) =
           Between(a, At(next, from)) \cup {At(next, r) : r \in from .. (from + RowSplit - 1)}
    <3>1. \A h \in Nat : from <= h /\ h <= Rows(next) + 1
            => Between(a, At(next, h))
                 = Between(a, At(next, from)) \cup {At(next, r) : r \in from .. (h - 1)}
          BY <2>3, <2>9, <2>11, PartOfItem, Zenon
    <3>2. (from + RowSplit) - 1 = from + (RowSplit - 1)
          BY <2>3, <2>4
    <3> QED BY <2>10, <3>1, <3>2, Zenon
  <2>13. Places(ink' \cup Live(line')) = Between(a, At(next, from + RowSplit))
        BY <2>8, <2>12, Zenon DEF PartInv, a
  <2>14. ~Precedes(At(next, from + RowSplit), a)
        BY <2>3, <2>9, <2>10, AtFields DEF Precedes
  <2>15. (Between(start[page], At(next, from)))' = Between(a, At(next, from + RowSplit))
        BY <1>b, <2>1 DEF a
  <2> QED BY <2>1, <2>5, <2>13, <2>14, <2>15 DEF PartInv, a
<1>9. CASE EndDocument
  <2>1. /\ UNCHANGED <<items, next, from, start, page>> /\ DrawFlush(lo)
        /\ line' = Freed(line) /\ ended' = TRUE
        BY <1>9 DEF EndDocument, document, place
  <2>2. Live(line') = {}
        BY <1>a, <2>1, LivesOf
  <2>3. Places(ink') = Places(ink \cup Live(line))
        BY <1>a, <2>1, FlushPlaces
  <2>4. Places(ink' \cup Live(line')) = Places(ink \cup Live(line))
        BY <2>2, <2>3
  <2>5. (Between(start[page], At(next, from)))' = Between(start[page], At(next, from))
        BY <1>b, <2>1
  <2> QED BY <2>1, <2>2, <2>4, <2>5 DEF PartInv
<1>e. ASSUME NEW s \in [next : 1 .. Len(items) + 1, from : Nat \ {0}]
      PROVE  Between(s, s) = {} /\ ~Precedes(s, s) /\ s = At(s.next, s.from)
  <2>1. s.next \in Nat /\ s.from \in Nat /\ s = At(s.next, s.from)
        BY ItemsType DEF At
  <2> QED BY <2>1 DEF Between, Precedes
<1>10. CASE NextPage
  <2> DEFINE e == At(next, from)
             E == [next : 1 .. Len(items) + 1, from : Nat \ {0}]
  <2>1. /\ UNCHANGED <<items, next, from, line, ended>> /\ st = "shown" /\ ~ended
        /\ page' = page + 1 /\ start' = Append(start, e) /\ ink' = {}
        BY <1>10 DEF NextPage, document, At
  <2>2. e \in E /\ start \in Seq(E)
        BY DEF TypeOK, At
  <2> HIDE DEF e, E
  <2>3. Len(start') = Len(start) + 1 /\ start'[Len(start) + 1] = e
        BY <2>1, <2>2, AppendProperties
  <2>4. page = Len(start) /\ Live(line) = {}
        BY <2>1 DEF PartInv
  <2>5. start'[page'] = e /\ page' = Len(start') /\ Live(line') = {}
        BY <2>1, <2>3, <2>4
  <2>6. Between(e, e) = {} /\ ~Precedes(e, e)
        BY <1>e, <2>2 DEF E
  <2>7. Places(ink' \cup Live(line')) = {}
        BY <2>1, <2>5, PlacesUnion
  <2>8. At(next', from') = e
        BY <2>1 DEF e
  <2>9. (Between(start[page], At(next, from)))' = Between(e, e)
        BY <1>b, <2>1, <2>5, <2>8
  <2> QED BY <2>5, <2>6, <2>7, <2>8, <2>9 DEF PartInv
<1>11. CASE \E p \in 1 .. MaxPages : EarlierPage(p)
  <2>1. PICK p \in DOMAIN start :
          /\ UNCHANGED <<items, line, start, ended>> /\ st = "shown" /\ ended
          /\ page' = p /\ next' = start[p].next /\ from' = start[p].from /\ ink' = {}
        BY <1>11 DEF EarlierPage, document
  <2> DEFINE e == start[p]
  <2>2. e \in [next : 1 .. Len(items) + 1, from : Nat \ {0}]
        BY StartType
  <2>3. Between(e, e) = {} /\ ~Precedes(e, e) /\ At(next', from') = e
        BY <1>e, <2>1, <2>2
  <2>4. Live(line') = {} /\ start'[page'] = e
        BY <2>1 DEF PartInv
  <2> HIDE DEF e
  <2>5. Places(ink' \cup Live(line')) = {}
        BY <2>1, <2>4, PlacesUnion
  <2>6. (Between(start[page], At(next, from)))' = Between(e, e)
        BY <1>b, <2>1, <2>3, <2>4
  <2> QED BY <2>1, <2>3, <2>4, <2>5, <2>6 DEF PartInv
<1> QED BY <1>1, <1>2, <1>3, <1>4, <1>5, <1>6, <1>7, <1>8, <1>9, <1>10, <1>11
        DEF Next, vars, document, place, SetRow

\* When tables follow line breaks, a finished page shows exactly the part of
\* the document between where it began and where the parser stands, on the
\* way to the end and when the client turns back: no glyph is lost with the
\* line of a page that is full, and none is drawn that goes back to the
\* parser (DrawFlush, Line::Dup, UngetSet, rowSplit).
THEOREM PagesShowTheirParts ==
  ASSUME TablesBeginLines
  PROVE  Spec => []PageShowsItsPart
<1>1. Init => RowsInHand
      BY DEF Init, RowsInHand
<1>2. Init => PartInv
  <2> SUFFICES ASSUME Init PROVE PartInv
      OBVIOUS
  <2>1. /\ next = 1 /\ from = 1 /\ line = <<>> /\ ink = {} /\ page = 1
        /\ start = <<At(1, 1)>> /\ st = "set"
        BY DEF Init, At
  <2>2. start[page] = At(1, 1) /\ Len(start) = 1 /\ At(next, from) = At(1, 1)
        BY <2>1
  <2>3. Between(At(1, 1), At(1, 1)) = {} /\ ~Precedes(At(1, 1), At(1, 1))
        BY AtFields DEF Between, Precedes
  <2>4. Live(line) = {}
        BY <2>1, LivesOf
  <2>5. Places(ink \cup Live(line)) = {}
        BY <2>1, <2>4, PlacesUnion
  <2> QED BY <2>1, <2>2, <2>3, <2>4, <2>5 DEF PartInv
<1>3. PartInv => PageShowsItsPart
  <2>1. Part = Between(start[page], At(next, from))
        BY DEF Part, Between, Standing, At
  <2>2. {[next |-> g.item, from |-> g.row] : g \in ink} = Places(ink)
        BY DEF Places, At
  <2> QED BY <2>1, <2>2 DEF PartInv, PageShowsItsPart
<1> QED BY <1>1, <1>2, <1>3, TypesInit, TypesNext, RowsInHandNext, PartInvNext, PTL DEF Spec

-----------------------------------------------------------------------------
(* Every page takes the reader further.                                     *)

\* Where the page begins whose first glyph is of the k-th item.
Room(k) == IF k = 1 THEN Top ELSE HMargin

\* On a page on which nothing stands yet there is room for every character,
\* every image, an empty line, and two rows of a table one under the other.
EverythingFits ==
  \A d \in Documents : \A k \in DOMAIN d :
    /\ Room(k) + LineSpacing < YLimit
    /\ d[k].kind = "char"  => VMargin + WordSpacing + d[k].w < XLimit
    /\ d[k].kind = "graph" => Room(k) + LineSpacing + Resized(d[k]).h < YLimit
    /\ d[k].kind = "table" =>
         \A r \in DOMAIN d[k].rows :
           /\ Room(k) + d[k].rows[r] < YLimit
           /\ r < Len(d[k].rows) => Room(k) + d[k].rows[r] + d[k].rows[r + 1] < YLimit

Blank(l) == l.x = VMargin /\ l.y <= Room(next) /\ l.curMaxHeight = 0

LEMMA RoomType == \A k : Room(k) \in Int /\ HMargin <= Room(k)
BY TopType, LayoutAssumption DEF LayoutAssumption, Room

\* What is known of a table that the page begins with.
FirstRows ==
  \/ rows = <<>> /\ lo.y <= Room(next)
  \/ Len(rows) = 1 /\ lo.y <= Room(next) + items[next].rows[from]
  \/ Len(rows) > 1

\* A page that is finished has taken something from the parser, since a page
\* from which nothing was taken yet is blank, but for the rows of a table.
AdvanceInv ==
  ~ended =>
    /\ page = Len(start)
    /\ At(next, from) = start[page] \/ Precedes(start[page], At(next, from))
    /\ lo.indent = 0
    /\ st = "shown" => Precedes(start[page], At(next, from))
    /\ st = "shown" /\ next <= Len(items) =>
         Blank(lo) /\ (items[next].kind # "table" => lo.lastMaxHeight = 0)
    /\ st = "set" /\ next <= Len(items) /\ At(next, from) = start[page] =>
         IF items[next].kind = "table" THEN FirstRows
         ELSE Blank(lo) /\ lo.lastMaxHeight = 0

\* On a page from which nothing was taken yet no glyph asks for a new page.
LEMMA FirstGlyphFits ==
  ASSUME TypeOK, EverythingFits, Setting({"char", "graph", "break"}),
         Blank(lo), lo.lastMaxHeight = 0, lo.indent = 0
  PROVE  Asked.ret # "NEW_PAGE"
<1>1. /\ items \in Documents /\ lo \in Layout /\ next \in DOMAIN items
      /\ Here.w \in Int /\ Here.h \in Int /\ Here.b \in Int
      /\ Here.kind = items[next].kind /\ Here.kind \in {"char", "graph", "break"}
      BY HereType DEF TypeOK, Setting
<1>2. /\ Room(next) + LineSpacing < YLimit
      /\ items[next].kind = "char"  => VMargin + WordSpacing + items[next].w < XLimit
      /\ items[next].kind = "graph" => Room(next) + LineSpacing + Resized(items[next]).h < YLimit
      BY <1>1 DEF EverythingFits
<1>3. CASE Here.kind = "char"
  <2>1. Asked = GetCharPos(lo, Here.w, Here.h, Here.b) /\ Here.w = items[next].w
        BY <1>1, <1>3 DEF Asked, Here
  <2>2. GetCharPos(lo, Here.w, Here.h, Here.b).ret = "OK"
        BY <1>1, <1>2, <1>3, <2>1, BlankPageTakesChar DEF Blank
  <2> QED BY <2>1, <2>2
<1>4. CASE Here.kind = "graph"
  <2>1. Asked = GetGraphPos(lo, Here.w, Here.h) /\ Here.h = Resized(items[next]).h
        BY <1>1, <1>4 DEF Asked, Here
  <2>2. lo.curMaxHeight = 0 /\ Room(next) + LineSpacing < YLimit
        /\ Room(next) + LineSpacing + Here.h < YLimit
        BY <1>1, <1>2, <1>4, <2>1 DEF Blank
  <2>3. lo.y <= Room(next) /\ Room(next) \in Int
        BY RoomType DEF Blank
  <2>4. GetGraphPos(lo, Here.w, Here.h).ret # "NEW_PAGE"
        BY <1>1, <2>2, <2>3, BlankPageTakesGraph
  <2> QED BY <2>1, <2>4
<1>5. CASE Here.kind = "break"
  <2>1. Asked = NewLine(lo)
        BY <1>5 DEF Asked
  <2>2. NewLine(lo).ret = "OK"
        BY <1>1, <1>2, RoomType, BlankPageTakesLine DEF Blank
  <2> QED BY <2>1, <2>2
<1> QED BY <1>1, <1>3, <1>4, <1>5

LEMMA AskedIndent ==
  ASSUME TypeOK, Setting({"char", "graph", "break"}), lo.indent = 0
  PROVE  Asked.lo.indent = 0
<1>1. lo \in Layout /\ Here.kind \in {"char", "graph", "break"}
      BY DEF TypeOK, Setting
<1> QED BY <1>1, NoIndent DEF Asked

LEMMA PrecedesFacts ==
  ASSUME NEW a, a.next \in Nat, a.from \in Nat, NEW i \in Nat, NEW f \in Nat,
         At(i, f) = a \/ Precedes(a, At(i, f))
  PROVE  /\ Precedes(a, At(i + 1, 1)) /\ At(i + 1, 1) # a
         /\ \A n \in Nat : n > 0 => Precedes(a, At(i, f + n)) /\ At(i, f + n) # a
         /\ Precedes(a, At(i, f)) => At(i, f) # a
BY AtFields DEF Precedes

LEMMA AdvanceTaken ==
  ASSUME TypeOK, AdvanceInv, UNCHANGED <<start, page, ended, st>>, ~AtEnd, Passed,
         st = "set", ~ended => lo'.indent = 0
  PROVE  AdvanceInv'
<1>1. SUFFICES ASSUME ~ended PROVE AdvanceInv'
      BY <1>1 DEF AdvanceInv
<1> DEFINE a == start[page]
<1>2. a.next \in Nat /\ a.from \in Nat
      BY StartType
<1>3. At(next, from) = a \/ Precedes(a, At(next, from))
      BY <1>1 DEF AdvanceInv
<1>4. next \in Nat /\ from \in Nat /\ next' = next + 1 /\ from' = 1
      BY HereType, ItemsType DEF TypeOK, Passed
<1> HIDE DEF a
<1>5. Precedes(a, At(next + 1, 1)) /\ At(next + 1, 1) # a
      BY <1>2, <1>3, <1>4, PrecedesFacts
<1>6. (At(next, from))' = At(next + 1, 1) /\ (start[page])' = a
      BY <1>4 DEF a
<1>7. (Precedes(start[page], At(next, from)))' = Precedes(a, At(next + 1, 1))
      BY <1>6 DEF Precedes
<1>8. page = Len(start)
      BY <1>1 DEF AdvanceInv
<1> QED BY <1>1, <1>5, <1>6, <1>7, <1>8 DEF AdvanceInv

LEMMA AdvanceInvNext ==
  ASSUME TypeOK, RowsOfTable, AdvanceInv, EverythingFits, [Next]_vars
  PROVE  AdvanceInv'
<1>a. \A x, y : (Precedes(x, y))' = Precedes(x, y)
      BY DEF Precedes
<1>b. lo \in Layout /\ items \in Documents /\ next \in Nat /\ from \in Nat \ {0} /\ Len(items) \in Nat
      /\ rows \in Seq(BoxType) /\ Len(rows) \in Nat
      BY ItemsType, LenProperties DEF TypeOK
<1>c. start[page].next \in Nat /\ start[page].from \in Nat
      BY StartType
<1>1. CASE SetOnLine \/ SetOnNextLine \/ SetBreak
  <2>1. /\ UNCHANGED <<start, page, ended, st>> /\ Passed /\ lo' = Asked.lo
        /\ ~AtEnd /\ st = "set" /\ Setting({"char", "graph", "break"})
        BY <1>1 DEF SetOnLine, SetOnNextLine, SetBreak, Setting, place
  <2>2. ~ended => lo'.indent = 0
        BY <2>1, AskedIndent DEF AdvanceInv
  <2> QED BY <2>1, <2>2, AdvanceTaken
<1>2. CASE SkipImage
  <2>1. /\ UNCHANGED <<start, page, ended, st, lo>> /\ Passed /\ ~AtEnd /\ st = "set"
        BY <1>2 DEF SkipImage, Setting, place
  <2>2. ~ended => lo'.indent = 0
        BY <2>1 DEF AdvanceInv
  <2> QED BY <2>1, <2>2, AdvanceTaken
<1>3. CASE SetLastRow
  <2>1. /\ UNCHANGED <<start, page, ended, st>> /\ Passed /\ ~AtEnd /\ st = "set"
        /\ lo' = RowAsked.lo
        BY <1>3 DEF SetLastRow, Setting, place
  <2>2. ~ended => lo'.indent = 0
        BY <1>b, <2>1, NoIndent DEF AdvanceInv, RowAsked
  <2> QED BY <2>1, <2>2, AdvanceTaken
\* The height of the row in hand, and whether it fits.
<1>d. ASSUME Setting({"table"}), ~ended
      PROVE  /\ items[next].kind = "table" /\ next <= Len(items)
             /\ RowAsked = GetTablePos(lo, items[next].rows[from + Len(rows)])
             /\ items[next].rows[from + Len(rows)] \in Int
             /\ RowAsked.lo.indent = 0
             /\ RowAsked.ret = "NEW_PAGE" => ~(lo.y + items[next].rows[from + Len(rows)] < YLimit)
             /\ RowAsked.ret = "OK" => RowAsked.lo.y = lo.y + items[next].rows[from + Len(rows)]
             /\ \A r \in DOMAIN items[next].rows :
                  /\ items[next].rows[r] \in Int /\ Room(next) + items[next].rows[r] < YLimit
                  /\ r < Len(items[next].rows) =>
                       Room(next) + items[next].rows[r] + items[next].rows[r + 1] < YLimit
             /\ DOMAIN items[next].rows = 1 .. Rows(next) /\ Len(items[next].rows) = Rows(next)
             /\ Rows(next) \in Nat /\ from + Len(rows) \in 1 .. Rows(next)
  <2>1. /\ ~AtEnd /\ items[next].kind = "table" /\ Here.rows = items[next].rows
        /\ Rows(next) = Len(items[next].rows) /\ Rows(next) \in Nat
        /\ from + Len(rows) \in 1 .. Rows(next)
        /\ items[next].rows[from + Len(rows)] \in Int
        BY <1>d, RowHeight
  <2>2. next \in DOMAIN items /\ next <= Len(items)
        BY <2>1, HereType, ItemsType
  <2>3. items[next].rows \in Seq(Nat)
        BY <2>2, ItemsType, ItemFields
  <2>4. DOMAIN items[next].rows = 1 .. Rows(next)
        BY <2>1, <2>3, LenProperties
  <2>5. \A r \in DOMAIN items[next].rows : items[next].rows[r] \in Int
        BY <2>1, <2>3, <2>4, ElementOfSeq
  <2>6. \A r \in DOMAIN items[next].rows :
          /\ Room(next) + items[next].rows[r] < YLimit
          /\ r < Len(items[next].rows) =>
               Room(next) + items[next].rows[r] + items[next].rows[r + 1] < YLimit
        BY <1>b, <2>1, <2>2 DEF EverythingFits
  <2>7. RowAsked = GetTablePos(lo, items[next].rows[from + Len(rows)])
        BY <2>1 DEF RowAsked
  <2> DEFINE h == items[next].rows[from + Len(rows)]
  <2>8. /\ RowAsked.ret = "NEW_PAGE" => ~(lo.y + h < YLimit)
        /\ RowAsked.ret = "OK" => RowAsked.lo.y = lo.y + h
        /\ RowAsked.lo.indent = 0
    <3> HIDE DEF h
    <3>1. h \in Int /\ RowAsked = GetTablePos(lo, h)
          BY <2>1, <2>7 DEF h
    <3>2. lo.indent = 0
          BY <1>d DEF AdvanceInv
    <3> QED BY <1>b, <3>1, <3>2, RowTaken, NoIndent
  <2> QED BY <2>1, <2>2, <2>4, <2>5, <2>6, <2>7, <2>8
<1>4. CASE SetRow
  <2>1. /\ UNCHANGED <<items, next, from, start, page, ended, st>> /\ Setting({"table"})
        /\ rows' = Append(rows, RowBox) /\ lo' = RowAsked.lo /\ RowAsked.ret = "OK" /\ st = "set"
        BY <1>4 DEF SetRow, document, place, Setting
  <2> SUFFICES ASSUME ~ended PROVE AdvanceInv'
      BY <2>1 DEF AdvanceInv
  <2>2. RowBox \in BoxType
        BY <2>1, RowAskedType
  <2>3. Len(rows') = Len(rows) + 1
        BY <1>b, <2>1, <2>2, AppendProperties
  <2>4. ASSUME At(next, from) = start[page] PROVE FirstRows'
    <3>1. FirstRows
          BY <1>d, <2>1, <2>4 DEF AdvanceInv
    <3>2. CASE rows = <<>>
      <4>1. Len(rows) = 0
            BY <3>2
      <4>2. from + Len(rows) = from /\ Len(rows') = 1 /\ lo.y <= Room(next)
            BY <1>b, <2>3, <3>1, <4>1 DEF FirstRows
      <4>3. lo'.y = lo.y + items[next].rows[from] /\ items[next].rows[from] \in Int
            BY <1>d, <2>1, <4>2
      <4>4. lo'.y <= Room(next) + items[next].rows[from]
            BY <1>b, <4>2, <4>3, FieldTypes, RoomType
      <4> QED BY <2>1, <4>2, <4>4 DEF FirstRows
    <3>3. CASE rows # <<>>
      <4>1. Len(rows) # 0
            BY <1>b, <3>3, EmptySeq
      <4>2. Len(rows') > 1
            BY <1>b, <2>3, <4>1
      <4> QED BY <4>2 DEF FirstRows
    <3> QED BY <3>2, <3>3
  <2>5. lo'.indent = 0
        BY <1>d, <2>1
  <2>6. (At(next, from))' = At(next, from) /\ (start[page])' = start[page]
        BY <2>1
  <2>7. next <= Len(items) /\ items[next].kind = "table"
        BY <1>d, <2>1
  <2> QED BY <1>a, <2>1, <2>4, <2>5, <2>6, <2>7 DEF AdvanceInv
<1>5. CASE BreakPage
  <2>1. /\ UNCHANGED <<items, next, from, rows, start, page, ended>> /\ st = "set" /\ st' = "shown"
        /\ lo' = Reset(Asked.lo) /\ Setting({"char", "graph", "break"}) /\ Asked.ret = "NEW_PAGE"
        BY <1>5 DEF BreakPage, document, place, Setting
  <2> SUFFICES ASSUME ~ended PROVE AdvanceInv'
      BY <2>1 DEF AdvanceInv
  <2>2. Asked.lo.indent = 0
        BY <2>1, AskedIndent DEF AdvanceInv
  <2>3. lo'.indent = 0 /\ Blank(lo') /\ lo'.lastMaxHeight = 0
        BY <2>1, <2>2, ResetFields, RoomType DEF Blank
  <2>4. items[next].kind # "table" /\ next <= Len(items)
        BY <2>1, HereType, ItemsType DEF Setting
  <2>5. At(next, from) # start[page]
    <3> SUFFICES ASSUME At(next, from) = start[page] PROVE FALSE
        OBVIOUS
    <3>1. Blank(lo) /\ lo.lastMaxHeight = 0 /\ lo.indent = 0
          BY <2>1, <2>4 DEF AdvanceInv
    <3> QED BY <2>1, <3>1, FirstGlyphFits
  <2>6. Precedes(start[page], At(next, from))
        BY <2>5 DEF AdvanceInv
  <2>7. (At(next, from))' = At(next, from) /\ (start[page])' = start[page] /\ (Blank(lo))' = Blank(lo')
        BY <2>1 DEF Blank
  <2>8. page = Len(start)
        BY DEF AdvanceInv
  <2> QED BY <1>a, <2>1, <2>3, <2>6, <2>7, <2>8 DEF AdvanceInv
<1>6. CASE BreakTable
  <2>1. /\ UNCHANGED <<items, next, start, page, ended>> /\ st = "set" /\ st' = "shown"
        /\ lo' = RowAsked.lo /\ Setting({"table"}) /\ RowAsked.ret = "NEW_PAGE"
        /\ from' = from + RowSplit /\ rows' = <<>>
        BY <1>6 DEF BreakTable, document, place, Setting
  <2> SUFFICES ASSUME ~ended PROVE AdvanceInv'
      BY <2>1 DEF AdvanceInv
  <2>2. items[next].kind = "table" /\ next <= Len(items) /\ lo'.indent = 0
        BY <1>d, <2>1
  <2>3. Blank(lo')
    <3>1. RowAsked.lo = PageFull(lo).lo
          BY <2>1 DEF RowAsked, GetTablePos, Result
    <3> QED BY <2>1, <3>1, PageFullFields, RoomType DEF Blank
  <2>4. RowSplit \in Nat
        BY <1>b DEF RowSplit
  <2>5. ASSUME At(next, from) = start[page] PROVE RowSplit > 0
    <3>1. FirstRows
          BY <2>1, <2>2, <2>5 DEF AdvanceInv
    <3> DEFINE h == items[next].rows
    <3>2. /\ ~(lo.y + h[from + Len(rows)] < YLimit)
          /\ \A r \in 1 .. Rows(next) :
               /\ h[r] \in Int /\ Room(next) + h[r] < YLimit
               /\ r < Rows(next) => Room(next) + h[r] + h[r + 1] < YLimit
          /\ Rows(next) \in Nat /\ from + Len(rows) \in 1 .. Rows(next)
          BY <1>d, <2>1
    <3> HIDE DEF h
    <3>3. YLimit \in Int /\ lo.y \in Int /\ Room(next) \in Int
          BY <1>b, FieldTypes, RoomType, LayoutAssumption DEF LayoutAssumption, YLimit
    <3>4. ASSUME rows = <<>>, lo.y <= Room(next) PROVE FALSE
      <4>1. Len(rows) = 0
            BY <3>4
      <4>2. from + Len(rows) = from
            BY <1>b, <4>1
      <4>3. h[from] \in Int /\ Room(next) + h[from] < YLimit /\ ~(lo.y + h[from] < YLimit)
            BY <3>2, <4>2
      <4> QED BY <3>3, <3>4, <4>3
    <3>5. ASSUME Len(rows) = 1, lo.y <= Room(next) + h[from] PROVE FALSE
      <4>1. from + Len(rows) = from + 1 /\ from \in 1 .. Rows(next) /\ from < Rows(next)
            BY <1>b, <3>2, <3>5
      <4>2. from + 1 \in 1 .. Rows(next)
            BY <3>2, <4>1
      <4>3. /\ h[from] \in Int /\ h[from + 1] \in Int
            /\ Room(next) + h[from] + h[from + 1] < YLimit /\ ~(lo.y + h[from + 1] < YLimit)
            BY <3>2, <4>1, <4>2
      <4> QED BY <3>3, <3>5, <4>3
    <3>6. Len(rows) > 1
          BY <3>1, <3>4, <3>5 DEF FirstRows, h
    <3> QED BY <1>b, <3>6 DEF RowSplit
  <2> DEFINE a == start[page]
             n == RowSplit
  <2> HIDE DEF a, n
  <2>6. At(next, from) = a \/ Precedes(a, At(next, from))
        BY DEF AdvanceInv, a
  <2>7. Precedes(a, At(next, from + n))
    <3>1. a.next \in Nat /\ a.from \in Nat /\ n \in Nat
          BY <1>c, <2>4 DEF a, n
    <3>2. CASE n > 0
          BY <1>b, <2>6, <3>1, <3>2, PrecedesFacts
    <3>3. CASE ~(n > 0)
      <4>1. n = 0 /\ from + n = from
            BY <1>b, <3>1, <3>3
      <4>2. At(next, from) # a
            BY <2>5, <3>3 DEF a, n
      <4> QED BY <2>6, <4>1, <4>2
    <3> QED BY <3>2, <3>3
  <2>8. (At(next, from))' = At(next, from + n) /\ (start[page])' = a /\ (Blank(lo))' = Blank(lo')
        BY <2>1 DEF Blank, a, n
  <2>9. page = Len(start)
        BY DEF AdvanceInv
  <2> QED BY <1>a, <2>1, <2>2, <2>3, <2>7, <2>8, <2>9 DEF AdvanceInv
<1>7. CASE EndDocument
      BY <1>7 DEF EndDocument, AdvanceInv
<1>8. CASE NextPage
  <2> DEFINE e == At(next, from)
             E == [next : 1 .. Len(items) + 1, from : Nat \ {0}]
  <2>1. /\ UNCHANGED <<items, next, from, lo, rows, ended>> /\ st = "shown" /\ st' = "set" /\ ~ended
        /\ page' = page + 1 /\ start' = Append(start, e)
        BY <1>8 DEF NextPage, document, At
  <2>2. e \in E /\ start \in Seq(E)
        BY DEF TypeOK, At
  <2> HIDE DEF e, E
  <2>3. Len(start') = Len(start) + 1 /\ start'[Len(start) + 1] = e
        BY <2>1, <2>2, AppendProperties
  <2>4. page = Len(start) /\ lo.indent = 0
        BY <2>1 DEF AdvanceInv
  <2>5. start'[page'] = e /\ page' = Len(start') /\ lo'.indent = 0
        BY <2>1, <2>3, <2>4
  <2>6. next <= Len(items) => Blank(lo) /\ (items[next].kind # "table" => lo.lastMaxHeight = 0)
        BY <2>1 DEF AdvanceInv
  <2>7. rows = <<>>
        BY <2>1 DEF RowsOfTable
  <2>8. next <= Len(items) => FirstRows'
        BY <2>1, <2>6, <2>7 DEF FirstRows, Blank
  <2>9. (At(next, from))' = e /\ (Blank(lo))' = Blank(lo)
        BY <2>1 DEF e, Blank
  <2> QED BY <2>1, <2>5, <2>6, <2>8, <2>9 DEF AdvanceInv
<1>9. CASE \E p \in 1 .. MaxPages : EarlierPage(p)
  <2>1. ended /\ ended' = ended
        BY <1>9 DEF EarlierPage
  <2> QED BY <2>1 DEF AdvanceInv
<1>10. CASE UNCHANGED vars
  <2>1. UNCHANGED <<items, next, from, lo, rows, start, page, ended, st>>
        BY <1>10 DEF vars, document, place
  <2>2. (At(next, from))' = At(next, from) /\ (start[page])' = start[page]
        /\ (Blank(lo))' = Blank(lo) /\ FirstRows' = FirstRows
        BY <2>1 DEF Blank, FirstRows
  <2> QED BY <1>a, <2>1, <2>2 DEF AdvanceInv
<1> QED BY <1>1, <1>2, <1>3, <1>4, <1>5, <1>6, <1>7, <1>8, <1>9, <1>10 DEF Next

\* When a blank page has room for what the document holds, every page that is
\* finished on the way to the end of the document takes something from the
\* parser: Display never gives out the same page twice as two pages, and
\* never an endless row of them (Graph::Resize, Table::Setup, rowSplit).
THEOREM PagesTakeTheReaderFurther ==
  ASSUME EverythingFits
  PROVE  Spec => []PagesAdvance
<1>1. Init => AdvanceInv
  <2> SUFFICES ASSUME Init PROVE AdvanceInv
      OBVIOUS
  <2>1. /\ next = 1 /\ from = 1 /\ page = 1 /\ start = <<At(1, 1)>> /\ st = "set" /\ rows = <<>>
        /\ lo = NewPage(NewLayout)
        BY DEF Init, At
  <2>2. start[page] = At(1, 1) /\ Len(start) = 1 /\ At(next, from) = At(1, 1)
        BY <2>1
  <2>3. Blank(lo) /\ lo.lastMaxHeight = 0 /\ lo.indent = 0 /\ lo.y <= Room(next)
        BY <2>1, FirstPage DEF Blank, Room
  <2> QED BY <2>1, <2>2, <2>3 DEF AdvanceInv, FirstRows
<1>2. AdvanceInv => PagesAdvance
      BY DEF AdvanceInv, PagesAdvance, Standing, At
<1> QED BY <1>1, <1>2, TypesInit, TypesNext, AdvanceInvNext, PTL DEF Spec

-----------------------------------------------------------------------------
(***************************************************************************)
(* Placement.  Where module Typesetter puts glyphs on the page: none over  *)
(* another, none beyond the paper.                                         *)
(***************************************************************************)

-----------------------------------------------------------------------------
(* What the layout answers on a line without indent.                        *)

LEMMA CharPlaced ==
  ASSUME NEW l \in Layout, NEW w \in Int, NEW h \in Int, l.indent = 0
  PROVE  LET r    == GetCharPos(l, w, h, h)
             base == Larger(l.curBaseline, h)
             high == Larger(l.curMaxHeight, base)
         IN  /\ r.ret \in {"OK", "NEW_LINE", "NEW_PAGE"}
             /\ r.ret = "OK" =>
                  /\ l.x + WordSpacing + w < XLimit
                  /\ r.px = l.x /\ r.py = l.y + h
                  /\ r.lo.x = l.x + w + WordSpacing /\ r.lo.y = l.y
                  /\ r.lo.curBaseline = base /\ r.lo.curMaxHeight = high
                  /\ r.lo.imageConp = l.imageConp /\ r.lo.indent = 0
                  /\ r.lo.lastMaxHeight = l.lastMaxHeight
                  /\ r.lo.lastBaseline = l.lastBaseline
             /\ r.ret = "NEW_LINE" =>
                  /\ l.y + LineSpacing + high + high < YLimit
                  /\ r.px = HMargin /\ r.py = l.y + LineSpacing + high + h
                  /\ r.lo.x = HMargin + w + WordSpacing /\ r.lo.y = l.y + LineSpacing + high
                  /\ r.lo.curBaseline = h /\ r.lo.curMaxHeight = h
                  /\ r.lo.imageConp = 0 /\ r.lo.indent = 0
                  /\ r.lo.lastMaxHeight = high
                  /\ r.lo.lastBaseline = base - l.imageConp
             /\ r.ret = "NEW_PAGE" => r.lo.lastBaseline = base
<1> DEFINE base == Larger(l.curBaseline, h)
           high == Larger(l.curMaxHeight, base)
           c == [l EXCEPT !.curBaseline = base]
           m == [c EXCEPT !.curMaxHeight = high]
           r == GetCharPos(l, w, h, h)
           o == [m EXCEPT !.x = @ + w + WordSpacing]
<1>1. base \in Int /\ high \in Int /\ base + h - h = base
  <2>1. base \in Int /\ high \in Int
        BY FieldTypes, LargerType
  <2> HIDE DEF base, high
  <2> QED BY <2>1
<1> DEFINE k == [l EXCEPT !.curBaseline = base, !.curMaxHeight = Larger(@, base + h - h)]
<1>2. k = m
      BY <1>1 DEF Layout
<1>2a. r = IF k.x + (LineIndent(k) + WordSpacing + w) >= XLimit
              /\ k.y + (LineSpacing + k.curMaxHeight) + k.curMaxHeight >= YLimit
           THEN PageFull(k)
           ELSE IF k.x + (LineIndent(k) + WordSpacing + w) >= XLimit
           THEN Result("NEW_LINE",
                  [x |-> HMargin + w + WordSpacing, y |-> k.y + (LineSpacing + k.curMaxHeight),
                   curMaxHeight |-> h, lastMaxHeight |-> k.curMaxHeight, curBaseline |-> h,
                   lastBaseline |-> k.curBaseline - k.imageConp, imageConp |-> 0,
                   firstLine |-> FALSE, indent |-> NextIndent],
                  HMargin, k.y + (LineSpacing + k.curMaxHeight) + h)
           ELSE Result("OK", [k EXCEPT !.x = @ + w + WordSpacing], k.x + LineIndent(k), k.y + h)
  <2> HIDE DEF k
  <2> QED BY ONLY TRUE DEF GetCharPos, k, base, r
<1> HIDE DEF k, r
<1> HIDE DEF base, high
<1>3. c \in Layout /\ c.x = l.x /\ c.y = l.y /\ c.imageConp = l.imageConp /\ c.indent = 0
      /\ c.lastMaxHeight = l.lastMaxHeight /\ c.lastBaseline = l.lastBaseline /\ c.curBaseline = base
      BY <1>1 DEF Layout
<1> HIDE DEF c
<1>4. m \in Layout /\ m.x = l.x /\ m.y = l.y /\ m.imageConp = l.imageConp /\ m.indent = 0
      /\ m.lastMaxHeight = l.lastMaxHeight /\ m.lastBaseline = l.lastBaseline /\ m.curBaseline = base
      /\ m.curMaxHeight = high
      BY <1>1, <1>3 DEF Layout
<1> HIDE DEF m
<1>5. o.x = l.x + w + WordSpacing /\ o.y = l.y /\ o.imageConp = l.imageConp /\ o.indent = 0
      /\ o.lastMaxHeight = l.lastMaxHeight /\ o.lastBaseline = l.lastBaseline /\ o.curBaseline = base
      /\ o.curMaxHeight = high
      BY <1>4 DEF Layout
<1> HIDE DEF o
<1>6. LineIndent(m) = 0
      BY <1>4 DEF LineIndent
<1> DEFINE lineOver == m.x + (0 + WordSpacing + w) >= XLimit
           pageOver == m.y + (LineSpacing + high) + high >= YLimit
           n == [x |-> HMargin + w + WordSpacing, y |-> m.y + (LineSpacing + high),
                 curMaxHeight |-> h, lastMaxHeight |-> high, curBaseline |-> h,
                 lastBaseline |-> base - m.imageConp, imageConp |-> 0, firstLine |-> FALSE,
                 indent |-> NextIndent]
<1> HIDE DEF lineOver, pageOver
<1>7. r = IF lineOver /\ pageOver THEN PageFull(m)
          ELSE IF lineOver THEN Result("NEW_LINE", n, HMargin, m.y + (LineSpacing + high) + h)
          ELSE Result("OK", o, m.x + 0, m.y + h)
      BY <1>2, <1>2a, <1>4, <1>6 DEF lineOver, pageOver, o
<1>8. CASE lineOver /\ pageOver
  <2>1. r.ret = "NEW_PAGE" /\ r.lo.lastBaseline = base
        BY <1>4, <1>7, <1>8 DEF PageFull, Result, NewLayout
  <2> QED BY <2>1 DEF r, base, high
<1>9. CASE lineOver /\ ~pageOver
  <2>1. r.ret = "NEW_LINE" /\ r.lo = n /\ r.px = HMargin /\ r.py = m.y + (LineSpacing + high) + h
        BY <1>7, <1>9 DEF Result
  <2>2. l.y + LineSpacing + high + high < YLimit
        BY <1>1, <1>4, <1>9, FieldTypes, LayoutAssumption DEF LayoutAssumption, pageOver, YLimit
  <2>3. m.y + (LineSpacing + high) = l.y + LineSpacing + high
        BY <1>1, <1>4, FieldTypes, LayoutAssumption DEF LayoutAssumption
  <2> QED BY <1>4, <2>1, <2>2, <2>3 DEF r, base, high, NextIndent
<1>10. CASE ~lineOver
  <2>1. r.ret = "OK" /\ r.lo = o /\ r.px = m.x + 0 /\ r.py = m.y + h
        BY <1>7, <1>10 DEF Result
  <2>2. l.x + WordSpacing + w < XLimit /\ m.x + 0 = l.x
        BY <1>1, <1>4, <1>10, FieldTypes, LayoutAssumption DEF LayoutAssumption, lineOver, XLimit
  <2> QED BY <1>4, <1>5, <2>1, <2>2 DEF r, base, high
<1> QED BY <1>8, <1>9, <1>10

\* An image on a line of its own.
LEMMA GraphPlaced ==
  ASSUME NEW l \in Layout, NEW w \in Int, NEW h \in Int, h >= 0,
         l.indent = 0, l.curMaxHeight = 0, l.imageConp = 0
  PROVE  LET r == GetGraphPos(l, w, h)
         IN  /\ r.ret \in {"OK", "NEW_LINE", "NEW_PAGE"}
             /\ r.ret = "OK" =>
                  /\ l.x + WordSpacing + w < XLimit /\ l.y + LineSpacing + h < YLimit
                  /\ r.px = l.x /\ r.py = l.y + h
                  /\ r.lo.x = l.x + w + WordSpacing /\ r.lo.y = l.y
                  /\ r.lo.curBaseline = l.curBaseline /\ r.lo.curMaxHeight = h
                  /\ r.lo.imageConp = h /\ r.lo.indent = 0
                  /\ r.lo.lastMaxHeight = l.lastMaxHeight
                  /\ r.lo.lastBaseline = l.lastBaseline
             /\ r.ret = "NEW_LINE" =>
                  /\ l.y + LineSpacing + h < YLimit
                  /\ r.px = HMargin /\ r.py = l.y + h
                  /\ r.lo.x = HMargin + w + WordSpacing /\ r.lo.y = l.y
                  /\ r.lo.curBaseline = 0 /\ r.lo.curMaxHeight = h
                  /\ r.lo.imageConp = h /\ r.lo.indent = 0
                  /\ r.lo.lastMaxHeight = 0
                  /\ r.lo.lastBaseline = l.curBaseline
             /\ r.ret = "NEW_PAGE" => r.lo.lastBaseline = l.curBaseline
<1> DEFINE c == [l EXCEPT !.imageConp = h]
           t == [c EXCEPT !.curMaxHeight = h]
           k == IF l.curMaxHeight < h
                THEN [l EXCEPT !.imageConp = h - l.curMaxHeight, !.curMaxHeight = h] ELSE l
           r == GetGraphPos(l, w, h)
           o == [k EXCEPT !.x = @ + w + WordSpacing]
<1>1. r = IF k.y + (LineSpacing + k.curMaxHeight) >= YLimit THEN PageFull(k)
          ELSE IF k.x + (LineIndent(k) + WordSpacing + w) >= XLimit
          THEN Result("NEW_LINE",
                 [x |-> HMargin + w + WordSpacing, y |-> k.y + h - k.imageConp,
                  curMaxHeight |-> h, lastMaxHeight |-> k.curMaxHeight - k.imageConp,
                  curBaseline |-> 0, lastBaseline |-> k.curBaseline, imageConp |-> h,
                  firstLine |-> FALSE, indent |-> NextIndent],
                 HMargin, k.y + 2 * h - k.imageConp)
          ELSE Result("OK", o, k.x + LineIndent(k), k.y + h)
  <2> HIDE DEF k
  <2> QED BY ONLY TRUE DEF GetGraphPos, k, r, o
<1>2. c \in Layout /\ c.x = l.x /\ c.y = l.y /\ c.indent = 0 /\ c.imageConp = h
      /\ c.lastMaxHeight = l.lastMaxHeight /\ c.lastBaseline = l.lastBaseline
      /\ c.curBaseline = l.curBaseline
      BY DEF Layout
<1>3. l.curMaxHeight < h => k = t
  <2>1. h - l.curMaxHeight = h
        OBVIOUS
  <2>2. [l EXCEPT !.imageConp = h, !.curMaxHeight = h] = t
        BY DEF Layout
  <2> QED BY <2>1, <2>2
<1> HIDE DEF c
<1>4. t \in Layout /\ t.x = l.x /\ t.y = l.y /\ t.indent = 0 /\ t.imageConp = h
      /\ t.lastMaxHeight = l.lastMaxHeight /\ t.lastBaseline = l.lastBaseline
      /\ t.curBaseline = l.curBaseline /\ t.curMaxHeight = h
      BY <1>2 DEF Layout
<1> HIDE DEF t
<1>5. k \in Layout /\ k.x = l.x /\ k.y = l.y /\ k.indent = 0 /\ k.imageConp = h
      /\ k.lastMaxHeight = l.lastMaxHeight /\ k.lastBaseline = l.lastBaseline
      /\ k.curBaseline = l.curBaseline /\ k.curMaxHeight = h
      BY <1>3, <1>4
<1> HIDE DEF k, r
<1>6. o.x = l.x + w + WordSpacing /\ o.y = l.y /\ o.imageConp = h /\ o.indent = 0
      /\ o.lastMaxHeight = l.lastMaxHeight /\ o.lastBaseline = l.lastBaseline
      /\ o.curBaseline = l.curBaseline /\ o.curMaxHeight = h
      BY <1>5 DEF Layout
<1> HIDE DEF o
<1>7. LineIndent(k) = 0
      BY <1>5 DEF LineIndent
<1> USE FieldTypes, LayoutAssumption DEF LayoutAssumption
<1>8. CASE k.y + (LineSpacing + k.curMaxHeight) >= YLimit
  <2>1. r.ret = "NEW_PAGE" /\ r.lo.lastBaseline = l.curBaseline
        BY <1>1, <1>5, <1>8 DEF PageFull, Result, NewLayout
  <2> QED BY <2>1 DEF r
<1>9. CASE /\ ~(k.y + (LineSpacing + k.curMaxHeight) >= YLimit)
           /\ k.x + (LineIndent(k) + WordSpacing + w) >= XLimit
  <2> DEFINE n == [x |-> HMargin + w + WordSpacing, y |-> k.y + h - k.imageConp,
                   curMaxHeight |-> h, lastMaxHeight |-> k.curMaxHeight - k.imageConp,
                   curBaseline |-> 0, lastBaseline |-> k.curBaseline, imageConp |-> h,
                   firstLine |-> FALSE, indent |-> NextIndent]
  <2>1. r.ret = "NEW_LINE" /\ r.lo = n /\ r.px = HMargin /\ r.py = k.y + 2 * h - k.imageConp
        BY <1>1, <1>9 DEF Result
  <2>2. l.y + LineSpacing + h < YLimit
        BY <1>5, <1>9 DEF YLimit
  <2>3. k.y + h - k.imageConp = l.y /\ k.y + 2 * h - k.imageConp = l.y + h
        /\ k.curMaxHeight - k.imageConp = 0
        BY <1>5
  <2> QED BY <1>5, <2>1, <2>2, <2>3 DEF r, NextIndent
<1>10. CASE /\ ~(k.y + (LineSpacing + k.curMaxHeight) >= YLimit)
            /\ ~(k.x + (LineIndent(k) + WordSpacing + w) >= XLimit)
  <2>1. r.ret = "OK" /\ r.lo = o /\ r.px = k.x + LineIndent(k) /\ r.py = k.y + h
        BY <1>1, <1>10 DEF Result
  <2>2. l.y + LineSpacing + h < YLimit /\ l.x + WordSpacing + w < XLimit
        BY <1>5, <1>7, <1>10 DEF YLimit, XLimit
  <2>3. k.x + LineIndent(k) = l.x
        BY <1>5, <1>7
  <2> QED BY <1>5, <1>6, <2>1, <2>2, <2>3 DEF r
<1> QED BY <1>8, <1>9, <1>10

LEMMA LinePlaced ==
  ASSUME NEW l \in Layout
  PROVE  LET r == NewLine(l)
         IN  /\ r.ret \in {"OK", "NEW_PAGE"}
             /\ r.ret = "OK" =>
                  /\ r.lo.y = l.y + LineSpacing + (IF l.curMaxHeight = 0 THEN l.lastMaxHeight
                                                                        ELSE l.curMaxHeight)
                  /\ r.lo.y < YLimit /\ r.lo.x = HMargin /\ r.lo.curMaxHeight = 0
                  /\ r.lo.curBaseline = 0 /\ r.lo.imageConp = 0 /\ r.lo.indent = 0
                  /\ r.lo.lastMaxHeight = l.curMaxHeight - l.imageConp
                  /\ r.lo.lastBaseline = l.curBaseline
             /\ r.ret = "NEW_PAGE" => r.lo.lastBaseline = l.curBaseline
<1> DEFINE Y == LineSpacing + (IF l.curMaxHeight = 0 THEN l.lastMaxHeight ELSE l.curMaxHeight)
           r == NewLine(l)
           f == [l EXCEPT !.firstLine = TRUE]
           n == [x |-> HMargin, y |-> l.y + Y,
                 curMaxHeight |-> 0, lastMaxHeight |-> l.curMaxHeight - l.imageConp,
                 curBaseline |-> 0, lastBaseline |-> l.curBaseline,
                 imageConp |-> 0, firstLine |-> TRUE, indent |-> NextIndent]
<1>1. r = IF l.y + Y >= YLimit THEN PageFull(f) ELSE Result("OK", n, HMargin, l.y + Y)
      BY ONLY TRUE DEF NewLine
<1>2. f.curBaseline = l.curBaseline
      BY DEF Layout
<1>3. Y \in Int /\ l.y \in Int /\ YLimit \in Int /\ LineSpacing \in Int
      BY FieldTypes, LayoutAssumption DEF LayoutAssumption, YLimit
<1>4. l.y + Y = l.y + LineSpacing + (IF l.curMaxHeight = 0 THEN l.lastMaxHeight
                                                           ELSE l.curMaxHeight)
      BY FieldTypes, LayoutAssumption DEF LayoutAssumption
<1> HIDE DEF Y, f, r
<1>5. CASE l.y + Y >= YLimit
  <2>1. r.ret = "NEW_PAGE" /\ r.lo.lastBaseline = l.curBaseline
        BY <1>1, <1>2, <1>5 DEF PageFull, Result, NewLayout
  <2> QED BY <2>1 DEF r
<1>6. CASE ~(l.y + Y >= YLimit)
  <2>1. r.ret = "OK" /\ r.lo = n
        BY <1>1, <1>6 DEF Result
  <2>2. l.y + Y < YLimit
        BY <1>3, <1>6
  <2> QED BY <1>4, <2>1, <2>2 DEF r, NextIndent
<1> QED BY <1>5, <1>6

LEMMA RowPlaced ==
  ASSUME NEW l \in Layout, NEW h \in Int, l.indent = 0
  PROVE  LET r == GetTablePos(l, h)
         IN  /\ r.ret \in {"OK", "NEW_PAGE"}
             /\ r.ret = "OK" =>
                  /\ l.y + h < YLimit /\ r.px = l.x /\ r.py = l.y
                  /\ r.lo.x = l.x /\ r.lo.y = l.y + h /\ r.lo.curMaxHeight = 0
                  /\ r.lo.curBaseline = l.curBaseline /\ r.lo.imageConp = l.imageConp
                  /\ r.lo.indent = 0 /\ r.lo.lastMaxHeight = l.lastMaxHeight
                  /\ r.lo.lastBaseline = l.lastBaseline
             /\ r.ret = "NEW_PAGE" =>
                  /\ r.lo.x = VMargin /\ r.lo.y = HMargin /\ r.lo.curMaxHeight = 0
                  /\ r.lo.curBaseline = 0 /\ r.lo.imageConp = 0
                  /\ r.lo.indent = 0 /\ r.lo.lastMaxHeight = l.lastMaxHeight
                  /\ r.lo.lastBaseline = l.curBaseline
<1> DEFINE r == GetTablePos(l, h)
           c == [l EXCEPT !.y = @ + h + TableMargin]
           o == [c EXCEPT !.curMaxHeight = 0]
<1>1. o = [l EXCEPT !.y = @ + h + TableMargin, !.curMaxHeight = 0]
      BY DEF Layout
<1>2. c \in Layout /\ c.x = l.x /\ c.y = l.y + h /\ c.curBaseline = l.curBaseline
      /\ c.imageConp = l.imageConp /\ c.indent = 0
      /\ c.lastMaxHeight = l.lastMaxHeight /\ c.lastBaseline = l.lastBaseline
      BY DEF Layout, TableMargin
<1> HIDE DEF c
<1>3. o.x = l.x /\ o.y = l.y + h /\ o.curBaseline = l.curBaseline
      /\ o.imageConp = l.imageConp /\ o.indent = 0 /\ o.curMaxHeight = 0
      /\ o.lastMaxHeight = l.lastMaxHeight /\ o.lastBaseline = l.lastBaseline
      BY <1>2 DEF Layout
<1> HIDE DEF o
<1>4. LineIndent(l) = 0
      BY DEF LineIndent
<1>5. r = IF l.y + h >= YLimit THEN PageFull(l) ELSE Result("OK", o, l.x + LineIndent(l), l.y)
      BY <1>1, Zenon DEF GetTablePos, r
<1>6. l.x \in Int /\ l.y + h \in Int /\ YLimit \in Int
      BY FieldTypes, LayoutAssumption DEF LayoutAssumption, YLimit
<1> HIDE DEF r
<1>7. CASE l.y + h >= YLimit
  <2>1. /\ r.ret = "NEW_PAGE" /\ r.lo.x = VMargin /\ r.lo.y = HMargin /\ r.lo.curMaxHeight = 0
        /\ r.lo.curBaseline = 0 /\ r.lo.imageConp = 0 /\ r.lo.indent = 0
        /\ r.lo.lastMaxHeight = l.lastMaxHeight /\ r.lo.lastBaseline = l.curBaseline
        BY <1>5, <1>7 DEF PageFull, Result, NewLayout
  <2> QED BY <2>1 DEF r
<1>8. CASE ~(l.y + h >= YLimit)
  <2>1. r.ret = "OK" /\ r.lo = o /\ r.px = l.x + LineIndent(l) /\ r.py = l.y
        BY <1>5, <1>8 DEF Result
  <2>2. l.x + LineIndent(l) = l.x /\ l.y + h < YLimit
        BY <1>4, <1>6, <1>8
  <2> QED BY <1>3, <2>1, <2>2 DEF r
<1> QED BY <1>7, <1>8

-----------------------------------------------------------------------------
(* What is assumed of documents and of the geometry.                        *)

\* Characters stand on the baseline of their line: none hangs below it.
LettersStand ==
  \A d \in Documents : \A k \in DOMAIN d : d[k].kind = "char" => d[k].b = d[k].h

\* Tables and images follow a line break, or nothing.
FiguresBeginLines ==
  \A d \in Documents : \A k \in DOMAIN d :
    d[k].kind \in {"table", "graph"} /\ k > 1 => d[k - 1].kind = "break"

\* Spacing keeps apart, and a page is larger than IMAGE_GUARD_SIZE.
SpacingGuards ==
  /\ LineSpacing >= 0 /\ WordSpacing >= 0
  /\ ImageGuard <= PageW /\ ImageGuard <= PageH

LEMMA QuotientNat == ASSUME NEW a \in Nat, NEW b \in Nat, b > 0 PROVE a \div b \in Nat
OBVIOUS

LEMMA ProductNat == ASSUME NEW a \in Nat, NEW b \in Nat PROVE a * b \in Nat
OBVIOUS

LEMMA ProductMonotone ==
  ASSUME NEW a \in Nat, NEW b \in Nat, NEW c \in Nat, a <= b
  PROVE  a * c <= b * c
<1>1. (b - a) * c \in Nat
      OBVIOUS
<1>2. b * c = (a * c) + ((b - a) * c)
      OBVIOUS
<1>3. a * c \in Nat
      OBVIOUS
<1> QED BY <1>1, <1>2, <1>3

LEMMA QuotientAtMost ==
  ASSUME NEW a \in Nat, NEW b \in Nat, NEW c \in Nat, b > 0, a <= c * b
  PROVE  a \div b <= c
<1> DEFINE q == a \div b
           r == a % b
<1>1. q \in Int /\ a = (q * b) + r /\ 0 <= r /\ r \in Int
      OBVIOUS
<1> HIDE DEF q, r
<1>2. SUFFICES ASSUME q > c PROVE FALSE
      BY <1>1 DEF q
<1> DEFINE d == q - c - 1
<1>3. d \in Nat /\ q = c + 1 + d
      BY <1>1, <1>2
<1> HIDE DEF d
<1> DEFINE e == d * b
           f == c * b
<1>4. e \in Nat /\ f \in Nat
      BY <1>3
<1>5. q * b = f + b + e
      BY <1>3
<1> HIDE DEF e
<1>6. a <= f
      OBVIOUS
<1> HIDE DEF f
<1> QED BY <1>1, <1>4, <1>5, <1>6

LEMMA QuotientAbove ==
  ASSUME NEW a \in Nat, NEW b \in Nat, NEW c \in Nat, b > 0, a \div b > c
  PROVE  c * b <= a
<1> DEFINE q == a \div b
           r == a % b
<1>1. q \in Int /\ a = (q * b) + r /\ 0 <= r /\ r \in Int /\ q > c
      OBVIOUS
<1> HIDE DEF q, r
<1>2. c * b <= q * b
      BY <1>1, ProductMonotone
<1> QED BY <1>1, <1>2

LEMMA WideAsSize ==
  ASSUME NEW g \in Item, g.w > 0, g.h > 0, NEW w \in Nat
  PROVE  /\ WideAs(g, w).w = w /\ WideAs(g, w).h = (g.h * w) \div g.w
         /\ WideAs(g, w).h \in Nat
<1> DEFINE q == (g.h * w) \div g.w
           k == [g EXCEPT !.w = w]
<1>1. q \in Nat
      BY ItemFields, ProductNat, QuotientNat
<1> HIDE DEF q
<1>2. WideAs(g, w) = [k EXCEPT !.h = q]
      BY DEF WideAs, q, Item
<1>3. k.w = w /\ DOMAIN k = {"kind", "w", "h", "b", "rows"}
      BY DEF Item
<1> HIDE DEF k
<1>4. [k EXCEPT !.h = q].w = w /\ [k EXCEPT !.h = q].h = q
      BY <1>3
<1> QED BY <1>1, <1>2, <1>4 DEF q

LEMMA HighAsSize ==
  ASSUME NEW g \in Item, g.w > 0, g.h > 0, NEW h \in Nat
  PROVE  HighAs(g, h).h = h /\ HighAs(g, h).w = (g.w * h) \div g.h
<1> DEFINE q == (g.w * h) \div g.h
           k == [g EXCEPT !.h = h]
<1> HIDE DEF q
<1>1. HighAs(g, h) = [k EXCEPT !.w = q]
      BY DEF HighAs, q, Item
<1>2. k.h = h /\ DOMAIN k = {"kind", "w", "h", "b", "rows"}
      BY DEF Item
<1> HIDE DEF k
<1>3. [k EXCEPT !.w = q].w = q /\ [k EXCEPT !.w = q].h = h
      BY <1>2
<1> QED BY <1>1, <1>3 DEF q

\* A scaled image is no larger than the page.
LEMMA ResizedFits ==
  ASSUME SpacingGuards, NEW g \in Item, g.w > 0, g.h > 0
  PROVE  /\ Resized(g).w \in Nat /\ Resized(g).h \in Nat
         /\ Resized(g).w <= PageW /\ Resized(g).h <= PageH
<1>1. g.w \in Nat /\ g.h \in Nat
      BY ItemFields
<1> DEFINE w == PageW - ImageGuard
           h == PageH - ImageGuard
<1>2. w \in Nat /\ h \in Nat /\ PageW \in Nat /\ PageH \in Nat /\ w <= PageW /\ h <= PageH
      BY PageSizes, TypesetterAssumption DEF TypesetterAssumption, SpacingGuards
<1>3. CASE g.w > PageW /\ WideAs(g, w).h <= PageH
  <2>1. Resized(g) = WideAs(g, w)
        BY <1>3 DEF Resized
  <2>2. WideAs(g, w).w = w /\ WideAs(g, w).h \in Nat
        BY <1>1, <1>2, WideAsSize
  <2> QED BY <1>2, <1>3, <2>1, <2>2
<1>4. CASE ~(g.w > PageW /\ WideAs(g, w).h <= PageH) /\ (g.w > PageW \/ g.h > PageH)
  <2>1. Resized(g) = HighAs(g, h)
        BY <1>4 DEF Resized
  <2> HIDE DEF w, h
  <2>2. HighAs(g, h).h = h /\ HighAs(g, h).w = (g.w * h) \div g.h
        BY <1>1, <1>2, HighAsSize
  <2>3. g.w * h \in Nat /\ (g.w * h) \div g.h \in Nat /\ g.h * w \in Nat
        BY <1>1, <1>2, ProductNat, QuotientNat
  <2>4. CASE g.w > PageW
    <3>1. (g.h * w) \div g.w > PageH
      <4>1. WideAs(g, w).h = (g.h * w) \div g.w /\ WideAs(g, w).h \in Nat
            BY <1>1, <1>2, WideAsSize
      <4> QED BY <1>2, <1>4, <2>4, <4>1
    <3>2. PageH * g.w <= g.h * w
          BY <1>1, <1>2, <2>3, <3>1, QuotientAbove
    <3>3. h * g.w <= PageH * g.w
          BY <1>1, <1>2, ProductMonotone
    <3>4. h * g.w = g.w * h /\ g.h * w = w * g.h /\ PageH * g.w \in Nat
          BY <1>1, <1>2
    <3>5. g.w * h <= w * g.h
          BY <2>3, <3>2, <3>3, <3>4
    <3>6. (g.w * h) \div g.h <= w
          BY <1>1, <1>2, <2>3, <3>5, QuotientAtMost
    <3> QED BY <1>2, <2>1, <2>2, <2>3, <3>6
  <2>5. CASE ~(g.w > PageW)
    <3>1. h <= g.h
          BY <1>1, <1>2, <1>4, <2>5
    <3>2. h * g.w <= g.h * g.w
          BY <1>1, <1>2, <3>1, ProductMonotone
    <3>3. h * g.w = g.w * h /\ g.h * g.w = g.w * g.h
          BY <1>1, <1>2
    <3>4. (g.w * h) \div g.h <= g.w
          BY <1>1, <2>3, <3>2, <3>3, QuotientAtMost
    <3> QED BY <1>1, <1>2, <2>1, <2>2, <2>3, <2>5, <3>4
  <2> QED BY <2>4, <2>5
<1>5. CASE ~(g.w > PageW \/ g.h > PageH)
  <2>1. Resized(g) = g
        BY <1>5 DEF Resized
  <2> QED BY <1>1, <1>2, <1>5, <2>1
<1> QED BY <1>3, <1>4, <1>5

\* The glyph in hand.
LEMMA HereSize ==
  ASSUME TypeOK, LettersStand, SpacingGuards, ~AtEnd
  PROVE  /\ Here.w \in Int /\ Here.h \in Int
         /\ Here.kind = "char" =>
              Here.h \in Nat /\ Here.b = Here.h /\ Here.w \in Nat /\ items[next].b = Here.h
         /\ Here.kind = "graph" =>
              Here.w \in Nat /\ Here.h \in Nat /\ Here.w <= PageW /\ Here.h <= PageH
<1>1. next \in DOMAIN items /\ Here.kind = items[next].kind /\ Here.w \in Int /\ Here.h \in Int
      BY HereType
<1>2. /\ items[next] \in Item
      /\ items[next].kind = "graph" => items[next].w > 0 /\ items[next].h > 0
      BY <1>1, ItemsType
<1>3. items \in Documents
      BY DEF TypeOK
<1>4. CASE items[next].kind = "graph"
  <2>1. Here = Resized(items[next])
        BY <1>4 DEF Here
  <2>2. Here.w \in Nat /\ Here.h \in Nat /\ Here.w <= PageW /\ Here.h <= PageH
        BY <1>2, <1>4, <2>1, ResizedFits
  <2> QED BY <1>1, <1>4, <2>2
<1>5. CASE items[next].kind # "graph"
  <2>1. Here = items[next]
        BY <1>5 DEF Here
  <2>2. items[next].kind = "char" => items[next].b = items[next].h
        BY <1>1, <1>3 DEF LettersStand
  <2> QED BY <1>1, <1>2, <1>5, <2>1, <2>2, ItemFields
<1> QED BY <1>4, <1>5

-----------------------------------------------------------------------------
(* Where the boxes are.                                                     *)

IsRow(g) == items[g.item].kind = "table"

\* Boxes that stay where they are: those drawn, and the rows of tables.
Settled == ink \cup {g \in Live(line) : IsRow(g)} \cup Boxes(rows)

\* Glyphs on the line, which wait for its baseline.
Waiting == {g \in Live(line) : ~IsRow(g)}

AllApart(S) == \A a, b \in S : a # b => Apart(a, b)
Beside(a, b) == a.right <= b.left \/ b.right <= a.left

\* Nothing stands on the line yet.
BlankLine ==
  lo.x \in {HMargin, VMargin} /\ lo.curMaxHeight = 0 /\ lo.imageConp = 0 /\ lo.curBaseline = 0

\* The heights of a line fit together.
Heights ==
  /\ lo.curBaseline <= lo.curMaxHeight
  /\ 0 <= lo.imageConp /\ lo.imageConp <= lo.curMaxHeight
  /\ 0 <= lo.lastMaxHeight

FigureNext == next <= Len(items) /\ items[next].kind \in {"table", "graph"}

\* A glyph that waits stands on the line, left of what comes next.
OnLine(g) ==
  /\ g.top = lo.y /\ g.right <= lo.x /\ g.bottom <= lo.y + lo.curMaxHeight
  /\ items[g.item].kind = "char" => g.bottom = g.top + items[g.item].b

\* While a page is set, what is settled is above the current line, glyphs
\* wait beside each other on it, and a table or an image finds it blank.
SettingInv ==
  /\ Heights
  /\ \A g \in Settled : g.bottom <= lo.y
  /\ \A g \in Waiting : OnLine(g)
  /\ \A a, b \in Waiting : a # b => Beside(a, b)
  /\ FigureNext => BlankLine /\ Waiting = {}

PlacesInv ==
  /\ AllApart(Settled) /\ lo.indent = 0
  /\ st = "shown" => Live(line) = {} /\ (~ended => BlankLine /\ Heights)
  /\ st = "set" => SettingInv

LEMMA BoxesTyped ==
  ASSUME TypeOK
  PROVE  /\ \A g \in Settled \cup Waiting \cup Live(line) \cup ink : g \in BoxType
         /\ \A g \in BoxType : /\ g.left \in Int /\ g.right \in Int /\ g.top \in Int
                              /\ g.bottom \in Int /\ g.item \in DOMAIN items
<1>1. line \in Seq(BoxType) /\ rows \in Seq(BoxType) /\ ink \subseteq BoxType
      BY DEF TypeOK
<1>2. \A s \in Seq(BoxType) : \A g \in Boxes(s) : g \in BoxType
      BY LenProperties, ElementOfSeq DEF Boxes
<1>3. \A g \in BoxType : /\ g.left \in Int /\ g.right \in Int /\ g.top \in Int
                        /\ g.bottom \in Int /\ g.item \in DOMAIN items
      BY DEF BoxType
<1> QED BY <1>1, <1>2, <1>3 DEF Settled, Waiting, Live

\* Only characters are moved to the baseline, and only down.
LEMMA AdjustedPlace ==
  ASSUME TypeOK, NEW g \in BoxType, NEW baseline \in Int
  PROVE  LET a == Adjusted(g, baseline)
             b == items[g.item].b
         IN  /\ a.left = g.left /\ a.right = g.right /\ g.top <= a.top
             /\ items[g.item].kind # "char" => a = g
             /\ a.bottom = g.bottom
                  \/ (items[g.item].kind = "char" /\ a.bottom = g.bottom + (baseline - b))
<1>1. g.item \in DOMAIN items /\ g.top \in Int /\ g.bottom \in Int
      BY DEF BoxType
<1>2. baseline - items[g.item].b \in Int
      BY <1>1, ItemsType, ItemFields
<1> DEFINE delta == baseline - items[g.item].b
           t == [g EXCEPT !.top = g.top + delta]
           u == [t EXCEPT !.bottom = g.bottom + delta]
<1> HIDE DEF delta
<1>3. t \in BoxType /\ t.left = g.left /\ t.right = g.right /\ t.top = g.top + delta
      BY <1>1, <1>2 DEF BoxType, delta
<1>4. [g EXCEPT !.top = @ + delta, !.bottom = @ + delta] = u
      BY DEF BoxType
<1> HIDE DEF t
<1>5. u.left = g.left /\ u.right = g.right /\ u.top = g.top + delta /\ u.bottom = g.bottom + delta
      BY <1>1, <1>2, <1>3 DEF BoxType, delta
<1> HIDE DEF u
<1>6. Adjusted(g, baseline) = g
      \/ (items[g.item].kind = "char" /\ delta >= 0 /\ Adjusted(g, baseline) = u)
      BY <1>4 DEF Adjusted, delta
<1>7. delta \in Int
      BY <1>2 DEF delta
<1>8. CASE Adjusted(g, baseline) = g
      BY <1>1, <1>8
<1>9. CASE items[g.item].kind = "char" /\ delta >= 0 /\ Adjusted(g, baseline) = u
  <2>1. g.top <= u.top
        BY <1>1, <1>5, <1>7, <1>9
  <2>2. u.bottom = g.bottom + (baseline - items[g.item].b)
        BY <1>5 DEF delta
  <2> QED BY <1>5, <1>9, <2>1, <2>2
<1> QED BY <1>6, <1>8, <1>9

\* Drawing the line settles what waits on it.
LEMMA FlushSettles ==
  ASSUME TypeOK, NEW after \in Layout, DrawFlush(after), rows = <<>>
  PROVE  ink' = Settled \cup {Adjusted(g, after.lastBaseline) : g \in Waiting}
<1>1. after.lastBaseline \in Int
      BY FieldTypes
<1>2. \A g \in Live(line) : IsRow(g) => Adjusted(g, after.lastBaseline) = g
      BY <1>1, BoxesTyped, AdjustedPlace DEF IsRow
<1>3. ink' = ink \cup {Adjusted(g, after.lastBaseline) : g \in Live(line)}
      BY DEF DrawFlush, Live, Boxes
<1>4. Boxes(rows) = {}
      BY BoxesEmpty
<1>5. {Adjusted(g, after.lastBaseline) : g \in Live(line)}
        = {g \in Live(line) : IsRow(g)} \cup {Adjusted(g, after.lastBaseline) : g \in Waiting}
      BY <1>2, Zenon DEF Waiting
<1> QED BY <1>3, <1>4, <1>5, Zenon DEF Settled

\* What is drawn is apart, whatever the baseline.
LEMMA FlushApart ==
  ASSUME TypeOK, AllApart(Settled), SettingInv, NEW after \in Layout, DrawFlush(after), rows = <<>>
  PROVE  AllApart(ink')
<1> DEFINE A(g) == Adjusted(g, after.lastBaseline)
<1>1. after.lastBaseline \in Int /\ lo \in Layout
      BY FieldTypes DEF TypeOK
<1>2. ink' = Settled \cup {A(g) : g \in Waiting}
      BY FlushSettles
<1>3. \A g \in Waiting : A(g).left = g.left /\ A(g).right = g.right /\ g.top <= A(g).top
                         /\ A(g) \in BoxType /\ g \in BoxType
      BY <1>1, BoxesTyped, AdjustedPlace, AdjustedType
<1> HIDE DEF A
<1>4. ASSUME NEW a \in Settled, NEW b \in Waiting
      PROVE  a.bottom <= A(b).top
  <2>1. a.bottom \in Int /\ b.top \in Int /\ A(b).top \in Int /\ lo.y \in Int
        BY <1>1, <1>3, BoxesTyped, FieldTypes
  <2>2. a.bottom <= lo.y /\ b.top = lo.y /\ b.top <= A(b).top
        BY <1>3 DEF SettingInv, OnLine
  <2> QED BY <2>1, <2>2
<1>5. ASSUME NEW a \in Waiting, NEW b \in Waiting, A(a) # A(b)
      PROVE  Apart(A(a), A(b))
      BY <1>3, <1>5 DEF SettingInv, Beside, Apart
<1>6. ASSUME NEW a \in ink', NEW b \in ink', a # b PROVE Apart(a, b)
  <2>1. CASE a \in Settled /\ b \in Settled
        BY <1>6, <2>1 DEF AllApart
  <2>2. CASE a \in Settled /\ b \notin Settled
        BY <1>2, <1>4, <2>2 DEF Apart
  <2>3. CASE a \notin Settled /\ b \in Settled
        BY <1>2, <1>4, <2>3 DEF Apart
  <2>4. CASE a \notin Settled /\ b \notin Settled
        BY <1>2, <1>5, <1>6, <2>4
  <2> QED BY <2>1, <2>2, <2>3, <2>4
<1> QED BY <1>6 DEF AllApart

\* The height of the line holds what is drawn with a baseline within it.
LEMMA FlushAbove ==
  ASSUME TypeOK, SettingInv, NEW after \in Layout, DrawFlush(after), rows = <<>>,
         NEW m \in Int, lo.curMaxHeight <= m, after.lastBaseline <= m
  PROVE  \A g \in ink' : g.bottom <= lo.y + m
<1>1. /\ after.lastBaseline \in Int /\ lo.y \in Int /\ lo.curMaxHeight \in Int /\ lo.imageConp \in Int
      BY FieldTypes DEF TypeOK
<1>2. ink' = Settled \cup {Adjusted(g, after.lastBaseline) : g \in Waiting}
      BY FlushSettles
<1>3. 0 <= m
      BY <1>1 DEF SettingInv, Heights
<1>4. ASSUME NEW g \in Settled PROVE g.bottom <= lo.y + m
  <2>1. g.bottom \in Int /\ g.bottom <= lo.y
        BY BoxesTyped DEF SettingInv
  <2> QED BY <1>1, <1>3, <2>1
<1>5. ASSUME NEW g \in Waiting PROVE Adjusted(g, after.lastBaseline).bottom <= lo.y + m
  <2> DEFINE a == Adjusted(g, after.lastBaseline)
             b == items[g.item].b
  <2>1. g \in BoxType /\ g.bottom \in Int /\ g.item \in DOMAIN items
        BY BoxesTyped
  <2>2. b \in Int
        BY <2>1, ItemsType, ItemFields
  <2>3. a.bottom = g.bottom \/ (items[g.item].kind = "char" /\ a.bottom = g.bottom + (after.lastBaseline - b))
        BY <1>1, <2>1, AdjustedPlace
  <2>4. g.bottom <= lo.y + lo.curMaxHeight /\ (items[g.item].kind = "char" => g.bottom = lo.y + b)
        BY DEF SettingInv, OnLine
  <2> HIDE DEF a, b
  <2>5. a.bottom <= lo.y + m
        BY <1>1, <2>1, <2>2, <2>3, <2>4
  <2> QED BY <2>5 DEF a
<1> QED BY <1>2, <1>4, <1>5

\* Behind anything but a line break stands no table and no image.
LEMMA NoFigureAfter ==
  ASSUME TypeOK, FiguresBeginLines, ~AtEnd, items[next].kind # "break", Passed, items' = items
  PROVE  ~FigureNext'
<1>1. next \in DOMAIN items /\ next \in Nat /\ Len(items) \in Nat /\ DOMAIN items = 1 .. Len(items)
      BY HereType, ItemsType
<1>2. items \in Documents /\ next' = next + 1
      BY DEF TypeOK, Passed
<1> SUFFICES ASSUME next + 1 <= Len(items), items[next + 1].kind \in {"table", "graph"} PROVE FALSE
    BY <1>2 DEF FigureNext
<1>3. next + 1 \in DOMAIN items /\ next + 1 > 1 /\ (next + 1) - 1 = next
      BY <1>1
<1>4. items[(next + 1) - 1].kind = "break"
      BY <1>2, <1>3 DEF FiguresBeginLines
<1> QED BY <1>3, <1>4

\* Where the boxes are after a step, and what is left to show of one that goes
\* on setting.
LEMMA BoxesAfter ==
  ASSUME UNCHANGED items
  PROVE  /\ Settled' = ink' \cup {g \in Live(line') : IsRow(g)} \cup Boxes(rows')
         /\ Waiting' = {g \in Live(line') : ~IsRow(g)}
BY DEF Settled, Waiting, IsRow, Live, Boxes

LEMMA StillSetting ==
  ASSUME UNCHANGED items, st' = "set", AllApart(Settled'), lo'.indent = 0,
         lo'.curBaseline <= lo'.curMaxHeight,
         0 <= lo'.imageConp, lo'.imageConp <= lo'.curMaxHeight, 0 <= lo'.lastMaxHeight,
         \A z \in Settled' : z.bottom <= lo'.y,
         \A z \in Waiting' : /\ z.top = lo'.y /\ z.right <= lo'.x /\ z.bottom <= lo'.y + lo'.curMaxHeight
                             /\ items[z.item].kind = "char" => z.bottom = z.top + items[z.item].b,
         \A a, b \in Waiting' : a # b => Beside(a, b),
         FigureNext' => Waiting' = {} /\ lo'.x \in {HMargin, VMargin} /\ lo'.curMaxHeight = 0
                        /\ lo'.imageConp = 0 /\ lo'.curBaseline = 0
  PROVE  PlacesInv'
<1>1. AllApart(Settled)' /\ (lo.indent = 0)'
      BY DEF AllApart, Apart
<1>2. SettingInv'
  <2>1. Heights'
        BY DEF Heights
  <2>2. (\A g \in Settled : g.bottom <= lo.y)'
        OBVIOUS
  <2>3. (\A g \in Waiting : OnLine(g))'
        BY DEF OnLine
  <2>4. (\A a, b \in Waiting : a # b => Beside(a, b))'
        BY DEF Beside
  <2>5. (FigureNext => BlankLine /\ Waiting = {})'
        BY DEF BlankLine
  <2> QED BY <2>1, <2>2, <2>3, <2>4, <2>5 DEF SettingInv
<1> QED BY <1>1, <1>2 DEF PlacesInv

\* A page is finished with what is drawn on it apart.
LEMMA PageFinished ==
  ASSUME UNCHANGED items, st' = "shown", Live(line') = {}, rows' = <<>>,
         AllApart(ink'), lo'.indent = 0,
         ended' \/ (/\ lo'.x \in {HMargin, VMargin} /\ lo'.curMaxHeight = 0
                   /\ lo'.imageConp = 0 /\ lo'.curBaseline = 0 /\ 0 <= lo'.lastMaxHeight)
  PROVE  PlacesInv'
<1>1. Settled' = ink'
      BY BoxesAfter, BoxesEmpty
<1>2. AllApart(Settled)' /\ (Live(line) = {})'
      BY <1>1 DEF AllApart, Apart, Live, Boxes
<1>3. (~ended => BlankLine /\ Heights)'
      BY DEF BlankLine, Heights
<1> QED BY <1>2, <1>3 DEF PlacesInv

\* The next page to set is blank.
LEMMA PageBegun ==
  ASSUME UNCHANGED items, st' = "set", Live(line') = {}, rows' = <<>>, ink' = {},
         lo'.indent = 0, lo'.x \in {HMargin, VMargin}, lo'.curMaxHeight = 0,
         lo'.imageConp = 0, lo'.curBaseline = 0, 0 <= lo'.lastMaxHeight
  PROVE  PlacesInv'
<1>1. Settled' = {} /\ Waiting' = {}
      BY BoxesAfter, BoxesEmpty
<1>2. AllApart(Settled')
      BY <1>1 DEF AllApart
<1> QED BY <1>1, <1>2, StillSetting

LEMMA BoxPlace ==
  \A row, w, h, r : /\ Box(row, w, h, r).left = r.px /\ Box(row, w, h, r).right = r.px + w
                    /\ Box(row, w, h, r).top = r.py - h /\ Box(row, w, h, r).bottom = r.py
                    /\ Box(row, w, h, r).item = next /\ Box(row, w, h, r).live
BY DEF Box

\* What holds while a glyph is set up.
LEMMA Setup ==
  ASSUME TypeOK, RowsOfTable, PlacesInv, LettersStand, SpacingGuards,
         Setting({"char", "graph", "break"})
  PROVE  /\ st = "set" /\ ~AtEnd /\ rows = <<>> /\ Boxes(rows) = {}
         /\ AllApart(Settled) /\ SettingInv /\ lo.indent = 0
         /\ lo \in Layout /\ Asked.lo \in Layout
         /\ lo.x \in Int /\ lo.y \in Int /\ lo.curMaxHeight \in Int /\ lo.lastMaxHeight \in Int
         /\ lo.curBaseline \in Int /\ lo.lastBaseline \in Int /\ lo.imageConp \in Int
         /\ Here.kind = items[next].kind /\ Here.w \in Int /\ Here.h \in Int
         /\ LineSpacing \in Nat /\ WordSpacing \in Nat /\ HMargin \in Int /\ VMargin \in Int
<1>1. st = "set" /\ ~AtEnd /\ Here.kind \in {"char", "graph", "break"}
      BY DEF Setting
<1>2. rows = <<>>
      BY <1>1, HereType DEF RowsOfTable
<1>3. LineSpacing \in Nat /\ WordSpacing \in Nat /\ HMargin \in Int /\ VMargin \in Int
      BY LayoutAssumption DEF LayoutAssumption, SpacingGuards
<1> QED BY <1>1, <1>2, <1>3, HereType, AskedType, FieldTypes, BoxesEmpty DEF TypeOK, PlacesInv

LEMMA GlyphBox ==
  ASSUME TypeOK, Setting({"char", "graph", "break"}), Here.kind \in {"char", "graph"}
  PROVE  LET g == Box(1, Here.w, Here.h, Asked)
         IN  g \in BoxType /\ g.live /\ g.item = next
<1>1. ~AtEnd
      BY DEF Setting
<1>2. Here.w \in Int /\ Here.h \in Int /\ Asked.px \in Int /\ Asked.py \in Int
      BY <1>1, HereType, AskedType
<1>3. Box(1, Here.w, Here.h, Asked) \in BoxType
      BY <1>1, <1>2, BoxIsBox
<1> QED BY <1>3, BoxPlace

\* What waits and what is drawn after a glyph is set up.
LEMMA BoxesOnLine ==
  ASSUME TypeOK, RowsOfTable, PlacesInv, LettersStand, SpacingGuards, SetOnLine
  PROVE  Settled' = Settled /\ Waiting' = Waiting \cup {Box(1, Here.w, Here.h, Asked)}
<1> DEFINE g == Box(1, Here.w, Here.h, Asked)
<1>1. /\ UNCHANGED <<items, ink, rows>> /\ line' = Append(line, g)
      /\ Here.kind \in {"char", "graph"} /\ Setting({"char", "graph", "break"})
      BY DEF SetOnLine, Setting, document
<1>2. /\ ~AtEnd /\ Here.kind = items[next].kind /\ Here.w \in Int /\ Here.h \in Int
      BY <1>1, Setup
<1>3. g \in BoxType /\ g.live /\ g.item = next
      BY <1>1, GlyphBox
<1> HIDE DEF g
<1>4. Live(line') = Live(line) \cup {g}
      BY <1>1, <1>3, LivesOf DEF TypeOK
<1>5. ~IsRow(g)
      BY <1>1, <1>2, <1>3 DEF IsRow
<1>6. Settled' = Settled /\ Waiting' = Waiting \cup {g}
      BY <1>1, <1>4, <1>5, BoxesAfter DEF Settled, Waiting
<1> QED BY <1>6 DEF g

LEMMA BoxesOnNextLine ==
  ASSUME TypeOK, RowsOfTable, PlacesInv, LettersStand, SpacingGuards, SetOnNextLine
  PROVE  Settled' = ink' /\ Waiting' = {Box(1, Here.w, Here.h, Asked)}
<1> DEFINE g == Box(1, Here.w, Here.h, Asked)
<1>1. /\ UNCHANGED <<items, rows>> /\ line' = Append(<<>>, g)
      /\ Here.kind \in {"char", "graph"} /\ Setting({"char", "graph", "break"})
      BY DEF SetOnNextLine, Setting, document, Dup
<1>2. /\ ~AtEnd /\ Here.kind = items[next].kind /\ Here.w \in Int /\ Here.h \in Int
      /\ Boxes(rows) = {} /\ rows = <<>>
      BY <1>1, Setup
<1>3. g \in BoxType /\ g.live /\ g.item = next
      BY <1>1, GlyphBox
<1> HIDE DEF g
<1>4. Live(line') = {g}
  <2>1. <<>> \in Seq(BoxType) /\ Live(<<>>) = {}
        BY EmptySeq, LivesOf
  <2>2. Live(Append(<<>>, g)) = Live(<<>>) \cup {g}
        BY <1>3, <2>1, LivesOf
  <2> QED BY <1>1, <2>1, <2>2
<1>5. ~IsRow(g)
      BY <1>1, <1>2, <1>3 DEF IsRow
<1>6. Settled' = ink' /\ Waiting' = {g}
      BY <1>1, <1>2, <1>4, <1>5, BoxesAfter
<1> QED BY <1>6 DEF g

\* A character or an image on the line.
LEMMA PlacesOnLine ==
  ASSUME TypeOK, RowsOfTable, PlacesInv, LettersStand, SpacingGuards, FiguresBeginLines, SetOnLine
  PROVE  PlacesInv'
<1> DEFINE g == Box(1, Here.w, Here.h, Asked)
<1>1. /\ UNCHANGED <<items, ink, rows, st>> /\ Passed /\ line' = Append(line, g) /\ lo' = Asked.lo
      /\ Here.kind \in {"char", "graph"} /\ Setting({"char", "graph", "break"}) /\ Asked.ret = "OK"
      BY DEF SetOnLine, Setting, document
<1>2. /\ st = "set" /\ ~AtEnd /\ Boxes(rows) = {}
      /\ AllApart(Settled) /\ SettingInv /\ lo.indent = 0
      /\ lo \in Layout /\ Asked.lo \in Layout
      /\ lo.x \in Int /\ lo.y \in Int /\ lo.curMaxHeight \in Int /\ lo.lastMaxHeight \in Int
      /\ lo.curBaseline \in Int /\ lo.imageConp \in Int
      /\ Here.kind = items[next].kind /\ Here.w \in Int /\ Here.h \in Int
      /\ WordSpacing \in Nat
      BY <1>1, Setup
<1>n. /\ lo.x \in Int /\ lo.y \in Int /\ lo.curMaxHeight \in Int /\ lo.lastMaxHeight \in Int
      /\ lo.imageConp \in Int /\ Here.w \in Int /\ Here.h \in Int /\ WordSpacing \in Nat
      BY <1>2
<1>3. g \in BoxType /\ g.live /\ g.item = next
      BY <1>1, GlyphBox
<1>4. ~FigureNext'
      BY <1>1, <1>2, NoFigureAfter
<1>5. /\ g.left = Asked.px /\ g.right = Asked.px + Here.w
      /\ g.top = Asked.py - Here.h /\ g.bottom = Asked.py
      BY BoxPlace
<1>7. Settled' = Settled /\ Waiting' = Waiting \cup {g}
      BY BoxesOnLine
<1> HIDE DEF g
<1>8. /\ Heights /\ (\A s \in Settled : s.bottom <= lo.y) /\ (\A s \in Waiting : OnLine(s))
      /\ (\A a, b \in Waiting : a # b => Beside(a, b)) /\ (FigureNext => BlankLine /\ Waiting = {})
      BY <1>2 DEF SettingInv
\* The new glyph.
<1>9. /\ g.left = lo.x /\ g.right <= lo'.x /\ (lo.x <= lo'.x \/ Waiting = {})
      /\ lo'.y = lo.y /\ lo'.indent = 0 /\ lo.curMaxHeight <= lo'.curMaxHeight
      /\ lo'.curMaxHeight \in Int
      /\ lo'.curBaseline <= lo'.curMaxHeight
      /\ 0 <= lo'.imageConp /\ lo'.imageConp <= lo'.curMaxHeight /\ 0 <= lo'.lastMaxHeight
      /\ g.top = lo.y /\ g.bottom <= lo.y + lo'.curMaxHeight
      /\ items[next].kind = "char" => g.bottom = g.top + items[next].b
  <2>1. CASE Here.kind = "char"
    <3>1. Asked = GetCharPos(lo, Here.w, Here.h, Here.h) /\ Here.h \in Nat /\ Here.w \in Nat
          /\ items[next].b = Here.h
          BY <1>2, <2>1, HereSize DEF Asked
    <3> DEFINE base == Larger(lo.curBaseline, Here.h)
               high == Larger(lo.curMaxHeight, base)
    <3>2. /\ Asked.px = lo.x /\ Asked.py = lo.y + Here.h
          /\ lo'.x = lo.x + Here.w + WordSpacing /\ lo'.y = lo.y
          /\ lo'.curBaseline = base /\ lo'.curMaxHeight = high
          /\ lo'.imageConp = lo.imageConp /\ lo'.indent = 0
          /\ lo'.lastMaxHeight = lo.lastMaxHeight
          BY <1>1, <1>2, <3>1, CharPlaced
    <3>3. /\ base \in Int /\ high \in Int /\ Here.h <= base /\ base <= high
          /\ lo.curMaxHeight <= high
          BY <1>2, <3>1 DEF Larger
    <3> HIDE DEF base, high
    <3>4. /\ g.left = lo.x /\ g.right <= lo'.x /\ lo.x <= lo'.x
          /\ g.top = lo.y /\ g.bottom = lo.y + Here.h
          BY <1>n, <1>5, <3>1, <3>2
    <3>5. /\ lo.curMaxHeight <= lo'.curMaxHeight /\ lo'.curMaxHeight \in Int
          /\ lo'.curBaseline <= lo'.curMaxHeight /\ Here.h <= lo'.curMaxHeight
          BY <1>n, <3>1, <3>2, <3>3
    <3>6. 0 <= lo'.imageConp /\ lo'.imageConp <= lo'.curMaxHeight /\ 0 <= lo'.lastMaxHeight
          BY <1>n, <1>8, <3>2, <3>5 DEF Heights
    <3>7. g.bottom <= lo.y + lo'.curMaxHeight /\ g.bottom = g.top + items[next].b
          BY <1>n, <3>1, <3>4, <3>5
    <3> QED BY <3>2, <3>4, <3>5, <3>6, <3>7
  <2>2. CASE Here.kind = "graph"
    <3>1. FigureNext
          BY <1>2, <2>2, HereType, ItemsType DEF FigureNext
    <3>2. Waiting = {} /\ lo.curMaxHeight = 0 /\ lo.imageConp = 0 /\ lo.curBaseline = 0
          BY <1>8, <3>1 DEF BlankLine
    <3>3. Asked = GetGraphPos(lo, Here.w, Here.h) /\ Here.h \in Nat
          BY <1>2, <2>2, HereSize DEF Asked
    <3>4. /\ Asked.px = lo.x /\ Asked.py = lo.y + Here.h
          /\ lo'.x = lo.x + Here.w + WordSpacing /\ lo'.y = lo.y
          /\ lo'.curBaseline = lo.curBaseline /\ lo'.curMaxHeight = Here.h
          /\ lo'.imageConp = Here.h /\ lo'.indent = 0
          /\ lo'.lastMaxHeight = lo.lastMaxHeight
      <4>1. /\ lo \in Layout /\ Here.w \in Int /\ Here.h \in Int /\ lo.indent = 0
            /\ GetGraphPos(lo, Here.w, Here.h).ret = "OK" /\ lo' = GetGraphPos(lo, Here.w, Here.h).lo
            BY <1>1, <1>2, <3>3
      <4> QED BY <3>2, <3>3, <4>1, GraphPlaced, SMTT(30)
    <3>5. items[next].kind # "char"
          BY <1>2, <2>2
    <3> QED BY <1>2, <1>5, <1>8, <3>2, <3>3, <3>4, <3>5 DEF Heights
  <2> QED BY <1>1, <2>1, <2>2
<1>10. ASSUME NEW s \in Waiting
       PROVE  /\ s.right <= g.left /\ s.top = lo'.y /\ s.right <= lo'.x
              /\ s.bottom <= lo'.y + lo'.curMaxHeight
              /\ items[s.item].kind = "char" => s.bottom = s.top + items[s.item].b
  <2>1. s.right \in Int /\ s.bottom \in Int
        BY BoxesTyped
  <2>2. lo'.x \in Int
        BY <1>1, <1>2, FieldTypes
  <2>3. OnLine(s)
        BY <1>8
  <2> QED BY <1>2, <1>9, <2>1, <2>2, <2>3 DEF OnLine
<1>11. \A a, b \in Waiting' : a # b => Beside(a, b)
  <2>1. \A a \in Waiting : a.right <= g.left
        BY <1>10
  <2>2. \A a, b \in Waiting : a # b => Beside(a, b)
        BY <1>8
  <2> QED BY <1>7, <2>1, <2>2 DEF Beside
<1>12. \A s \in Waiting' : /\ s.top = lo'.y /\ s.right <= lo'.x /\ s.bottom <= lo'.y + lo'.curMaxHeight
                           /\ items[s.item].kind = "char" => s.bottom = s.top + items[s.item].b
  <2>1. g.top = lo'.y /\ g.right <= lo'.x /\ g.bottom <= lo'.y + lo'.curMaxHeight
        /\ (items[g.item].kind = "char" => g.bottom = g.top + items[g.item].b)
        BY <1>3, <1>9
  <2> QED BY <1>7, <1>10, <2>1
<1>13. \A s \in Settled' : s.bottom <= lo'.y
  <2>1. lo'.y = lo.y
        BY <1>9
  <2> QED BY <1>7, <1>8, <2>1, Zenon
<1>14. AllApart(Settled')
       BY <1>2, <1>7, Zenon
<1>15. UNCHANGED items /\ st' = "set"
       BY <1>1, <1>2
<1> QED BY <1>4, <1>9, <1>11, <1>12, <1>13, <1>14, <1>15, StillSetting

\* A character or an image that begins the next line.
LEMMA PlacesOnNextLine ==
  ASSUME TypeOK, RowsOfTable, PlacesInv, LettersStand, SpacingGuards, FiguresBeginLines,
         SetOnNextLine
  PROVE  PlacesInv'
<1> DEFINE g == Box(1, Here.w, Here.h, Asked)
<1>1. /\ UNCHANGED <<items, rows, st>> /\ Passed /\ line' = Append(<<>>, g) /\ lo' = Asked.lo
      /\ Here.kind \in {"char", "graph"} /\ Setting({"char", "graph", "break"})
      /\ Asked.ret = "NEW_LINE" /\ DrawFlush(Asked.lo)
      BY DEF SetOnNextLine, Setting, document, Dup
<1>2. /\ st = "set" /\ ~AtEnd /\ rows = <<>> /\ Boxes(rows) = {}
      /\ AllApart(Settled) /\ SettingInv /\ lo.indent = 0
      /\ lo \in Layout /\ Asked.lo \in Layout
      /\ lo.x \in Int /\ lo.y \in Int /\ lo.curMaxHeight \in Int /\ lo.lastMaxHeight \in Int
      /\ lo.curBaseline \in Int /\ lo.imageConp \in Int
      /\ Here.kind = items[next].kind /\ Here.w \in Int /\ Here.h \in Int
      /\ LineSpacing \in Nat /\ WordSpacing \in Nat /\ HMargin \in Int
      BY <1>1, Setup
<1>n. /\ lo.y \in Int /\ LineSpacing \in Nat /\ WordSpacing \in Nat /\ HMargin \in Int
      /\ Here.w \in Int /\ Here.h \in Int
      BY <1>2
<1>3. g \in BoxType /\ g.live /\ g.item = next
      BY <1>1, GlyphBox
<1>4. ~FigureNext'
      BY <1>1, <1>2, NoFigureAfter
<1>5. /\ g.left = Asked.px /\ g.right = Asked.px + Here.w
      /\ g.top = Asked.py - Here.h /\ g.bottom = Asked.py
      BY BoxPlace
<1>7. Settled' = ink' /\ Waiting' = {g}
      BY BoxesOnNextLine
<1> HIDE DEF g
<1>8. AllApart(ink')
      BY <1>1, <1>2, FlushApart
<1>9. Heights /\ (FigureNext => BlankLine /\ Waiting = {}) /\ (\A s \in Settled : s.bottom <= lo.y)
      BY <1>2 DEF SettingInv
<1>10. /\ \A s \in ink' : s.bottom <= lo'.y
       /\ g.right <= lo'.x /\ lo'.indent = 0
       /\ lo'.curBaseline <= lo'.curMaxHeight
       /\ 0 <= lo'.imageConp /\ lo'.imageConp <= lo'.curMaxHeight /\ 0 <= lo'.lastMaxHeight
       /\ g.top = lo'.y /\ g.bottom <= lo'.y + lo'.curMaxHeight
       /\ items[next].kind = "char" => g.bottom = g.top + items[next].b
  <2>1. CASE Here.kind = "char"
    <3>1. Asked = GetCharPos(lo, Here.w, Here.h, Here.h) /\ Here.h \in Nat /\ Here.w \in Nat
          /\ items[next].b = Here.h
          BY <1>2, <2>1, HereSize DEF Asked
    <3> DEFINE base == Larger(lo.curBaseline, Here.h)
               high == Larger(lo.curMaxHeight, base)
    <3>2. /\ Asked.px = HMargin /\ Asked.py = lo.y + LineSpacing + high + Here.h
          /\ lo'.x = HMargin + Here.w + WordSpacing /\ lo'.y = lo.y + LineSpacing + high
          /\ lo'.curBaseline = Here.h /\ lo'.curMaxHeight = Here.h
          /\ lo'.imageConp = 0 /\ lo'.indent = 0
          /\ lo'.lastMaxHeight = high /\ lo'.lastBaseline = base - lo.imageConp
          BY <1>1, <1>2, <3>1, CharPlaced
    <3>3. /\ base \in Int /\ high \in Int /\ Here.h <= base /\ base <= high
          /\ lo.curMaxHeight <= high
          BY <1>2, <3>1 DEF Larger
    <3> HIDE DEF base, high
    <3>4. 0 <= high /\ Asked.lo.lastBaseline <= high
          BY <1>1, <1>2, <1>9, <3>2, <3>3 DEF Heights
    <3>5. \A s \in ink' : s.bottom <= lo.y + high
          BY <1>1, <1>2, <3>3, <3>4, FlushAbove
    <3>6. \A s \in ink' : s.bottom \in Int
          BY <1>1, <1>2, FlushType, BoxesTyped
    <3>7. \A s \in ink' : s.bottom <= lo'.y
    <4>1. lo'.y = lo.y + LineSpacing + high
          BY <3>2
    <4> QED BY <1>n, <3>3, <3>5, <3>6, <4>1
    <3>8. /\ g.right <= lo'.x /\ lo'.curBaseline <= lo'.curMaxHeight
          /\ 0 <= lo'.imageConp /\ lo'.imageConp <= lo'.curMaxHeight /\ 0 <= lo'.lastMaxHeight
          /\ g.top = lo'.y /\ g.bottom <= lo'.y + lo'.curMaxHeight
          /\ g.bottom = g.top + items[next].b
          BY <1>n, <1>5, <3>1, <3>2, <3>3, <3>4
    <3> QED BY <3>2, <3>7, <3>8
  <2>2. CASE Here.kind = "graph"
    <3>1. FigureNext
          BY <1>2, <2>2, HereType, ItemsType DEF FigureNext
    <3>2. Waiting = {} /\ lo.curMaxHeight = 0 /\ lo.imageConp = 0 /\ lo.curBaseline = 0
          BY <1>9, <3>1 DEF BlankLine
    <3>3. Asked = GetGraphPos(lo, Here.w, Here.h) /\ Here.h \in Nat
          BY <1>2, <2>2, HereSize DEF Asked
    <3>4. /\ Asked.px = HMargin /\ Asked.py = lo.y + Here.h
          /\ lo'.x = HMargin + Here.w + WordSpacing /\ lo'.y = lo.y
          /\ lo'.curBaseline = 0 /\ lo'.curMaxHeight = Here.h
          /\ lo'.imageConp = Here.h /\ lo'.indent = 0 /\ lo'.lastMaxHeight = 0
    <4>1. lo \in Layout /\ lo.indent = 0 /\ lo.curMaxHeight = 0 /\ lo.imageConp = 0
          /\ lo.curBaseline = 0 /\ Here.w \in Int /\ Here.h \in Int /\ Here.h >= 0
          BY <1>2, <3>2, <3>3
    <4> QED BY <1>1, <3>3, <4>1, GraphPlaced
    <3>5. ink' = Settled
      <4>1. ink' = Settled \cup {Adjusted(s, Asked.lo.lastBaseline) : s \in Waiting}
            BY <1>1, <1>2, FlushSettles
      <4> QED BY <3>2, <4>1, Zenon
    <3>6. \A s \in ink' : s.bottom <= lo'.y
          BY <1>9, <3>4, <3>5, Zenon
    <3>7. items[next].kind # "char"
          BY <1>2, <2>2
    <3>8. /\ g.right <= lo'.x /\ lo'.curBaseline <= lo'.curMaxHeight
          /\ 0 <= lo'.imageConp /\ lo'.imageConp <= lo'.curMaxHeight /\ 0 <= lo'.lastMaxHeight
          /\ g.top = lo'.y /\ g.bottom <= lo'.y + lo'.curMaxHeight
          BY <1>n, <1>5, <3>3, <3>4
    <3> QED BY <3>4, <3>6, <3>7, <3>8
  <2> QED BY <1>1, <2>1, <2>2
<1>11. \A a, b \in Waiting' : a # b => Beside(a, b)
       BY <1>7
<1>12. \A s \in Waiting' : /\ s.top = lo'.y /\ s.right <= lo'.x /\ s.bottom <= lo'.y + lo'.curMaxHeight
                           /\ items[s.item].kind = "char" => s.bottom = s.top + items[s.item].b
       BY <1>3, <1>7, <1>10
<1>13. \A s \in Settled' : s.bottom <= lo'.y
       BY <1>7, <1>10, Zenon
<1>14. AllApart(Settled')
       BY <1>7, <1>8, Zenon
<1>15. UNCHANGED items /\ st' = "set"
       BY <1>1, <1>2
<1> QED BY <1>4, <1>10, <1>11, <1>12, <1>13, <1>14, <1>15, StillSetting

\* A line break draws the line and begins a blank one.
LEMMA PlacesBreak ==
  ASSUME TypeOK, RowsOfTable, PlacesInv, LettersStand, SpacingGuards, SetBreak
  PROVE  PlacesInv'
<1>1. /\ UNCHANGED <<items, rows, st>> /\ line' = <<>> /\ lo' = Asked.lo
      /\ Here.kind = "break" /\ Setting({"char", "graph", "break"})
      /\ Asked.ret = "OK" /\ DrawFlush(Asked.lo)
      BY DEF SetBreak, Setting, document, Dup
<1>2. /\ st = "set" /\ rows = <<>> /\ AllApart(Settled) /\ SettingInv
      /\ lo \in Layout /\ Asked.lo \in Layout
      BY <1>1, Setup
<1>n. /\ lo.y \in Int /\ lo.curMaxHeight \in Int /\ lo.lastMaxHeight \in Int
      /\ lo.curBaseline \in Int /\ lo.imageConp \in Int /\ LineSpacing \in Nat
      BY <1>1, Setup
<1>3. Settled' = ink' /\ Waiting' = {}
      BY <1>1, <1>2, BoxesAfter, BoxesEmpty, LivesOf
<1>4. Heights
      BY <1>2 DEF SettingInv
<1>5. Asked = NewLine(lo)
      BY <1>1 DEF Asked
<1>6. /\ lo'.y = lo.y + LineSpacing + (IF lo.curMaxHeight = 0 THEN lo.lastMaxHeight
                                                             ELSE lo.curMaxHeight)
      /\ lo'.x = HMargin /\ lo'.curMaxHeight = 0 /\ lo'.curBaseline = 0 /\ lo'.imageConp = 0
      /\ lo'.indent = 0 /\ lo'.lastMaxHeight = lo.curMaxHeight - lo.imageConp
      /\ lo'.lastBaseline = lo.curBaseline
      BY <1>1, <1>2, <1>5, LinePlaced
<1>7. 0 <= lo'.lastMaxHeight /\ lo.y + lo.curMaxHeight <= lo'.y /\ lo'.y \in Int
      /\ Asked.lo.lastBaseline <= lo.curMaxHeight
  <2>1. /\ lo.curBaseline <= lo.curMaxHeight /\ 0 <= lo.lastMaxHeight
        /\ 0 <= lo.imageConp /\ lo.imageConp <= lo.curMaxHeight
        BY <1>4 DEF Heights
  <2>2. 0 <= lo'.lastMaxHeight
        BY <1>n, <1>6, <2>1
  <2>3. lo.y + lo.curMaxHeight <= lo'.y /\ lo'.y \in Int
    <3>1. CASE lo.curMaxHeight = 0
          BY <1>n, <1>6, <2>1, <3>1
    <3>2. CASE lo.curMaxHeight # 0
          BY <1>n, <1>6, <3>2
    <3> QED BY <3>1, <3>2
  <2>4. Asked.lo.lastBaseline <= lo.curMaxHeight
        BY <1>1, <1>6, <2>1
  <2> QED BY <2>2, <2>3, <2>4
<1>8. \A s \in Settled' : s.bottom <= lo'.y
  <2>1. \A s \in ink' : s.bottom <= lo.y + lo.curMaxHeight
        BY <1>n, <1>1, <1>2, <1>7, FlushAbove
  <2>2. \A s \in ink' : s.bottom \in Int
        BY <1>1, <1>2, FlushType, BoxesTyped
  <2>3. \A s \in ink' : s.bottom <= lo'.y
        BY <1>n, <1>7, <2>1, <2>2
  <2> QED BY <1>3, <2>3, Zenon
<1>9. AllApart(Settled')
  <2>1. AllApart(ink')
        BY <1>1, <1>2, FlushApart
  <2> QED BY <1>3, <2>1, Zenon
<1>10. UNCHANGED items /\ st' = "set"
       BY <1>1, <1>2
<1>11. \A a, b \in Waiting' : a # b => Beside(a, b)
       BY <1>3
<1>12. \A s \in Waiting' : /\ s.top = lo'.y /\ s.right <= lo'.x /\ s.bottom <= lo'.y + lo'.curMaxHeight
                           /\ items[s.item].kind = "char" => s.bottom = s.top + items[s.item].b
       BY <1>3
<1> QED BY <1>3, <1>6, <1>7, <1>8, <1>9, <1>10, <1>11, <1>12, StillSetting

\* A broken image leaves the page as it is.
LEMMA PlacesSkip ==
  ASSUME TypeOK, PlacesInv, FiguresBeginLines, SkipImage
  PROVE  PlacesInv'
<1>1. UNCHANGED <<items, lo, line, rows, ink, ended, st>> /\ Passed /\ st = "set" /\ ~AtEnd
      /\ Here.kind = "broken"
      BY DEF SkipImage, Setting, document
<1>2. ~FigureNext'
      BY <1>1, HereType, NoFigureAfter
<1>3. Settled' = Settled /\ Waiting' = Waiting /\ (lo.indent = 0)' /\ (st = "set")'
      BY <1>1, BoxesAfter DEF Settled, Waiting, PlacesInv
<1>4. AllApart(Settled) /\ SettingInv
      BY <1>1 DEF PlacesInv
<1>5. AllApart(Settled)'
      BY <1>3, <1>4 DEF AllApart, Apart
<1>6. Heights' /\ (\A g \in Settled : g.bottom <= lo.y)'
      BY <1>1, <1>3, <1>4 DEF SettingInv, Heights
<1>7. (\A g \in Waiting : OnLine(g))' /\ (\A a, b \in Waiting : a # b => Beside(a, b))'
      BY <1>1, <1>3, <1>4 DEF SettingInv, OnLine, Beside
<1>8. (FigureNext => BlankLine /\ Waiting = {})'
      BY <1>2
<1>9. SettingInv'
      BY <1>6, <1>7, <1>8 DEF SettingInv
<1> QED BY <1>3, <1>5, <1>9 DEF PlacesInv

-----------------------------------------------------------------------------
(* Tables.                                                                  *)

\* A row stands at the top left of what is blank.
LEMMA RowPlace ==
  ASSUME TypeOK, RowsOfTable, PlacesInv, Setting({"table"}), RowAsked.ret = "OK"
  PROVE  /\ RowBox \in BoxType /\ RowBox.item = next /\ RowBox.live /\ IsRow(RowBox)
         /\ RowBox.left = lo.x /\ RowBox.top = lo.y /\ RowBox.bottom = RowAsked.lo.y
         /\ RowBox.right = lo.x + Here.w
         /\ lo.y <= RowAsked.lo.y /\ RowAsked.lo.y < YLimit /\ RowAsked.lo.x = lo.x
         /\ RowAsked.lo.curMaxHeight = 0 /\ RowAsked.lo.indent = 0
         /\ RowAsked.lo.curBaseline = lo.curBaseline /\ RowAsked.lo.imageConp = lo.imageConp
         /\ RowAsked.lo.lastMaxHeight = lo.lastMaxHeight
         /\ RowAsked.lo.lastBaseline = lo.lastBaseline
<1> DEFINE h == Here.rows[from + Len(rows)]
           r == [RowAsked EXCEPT !.py = @ + h]
<1>1. h \in Nat /\ lo \in Layout /\ lo.indent = 0 /\ lo.x \in Int /\ lo.y \in Int
      /\ items[next].kind = "table"
      BY RowHeight, FieldTypes DEF TypeOK, PlacesInv
<1>2. RowAsked = GetTablePos(lo, h)
      BY DEF RowAsked
<1>3. /\ lo.y + h < YLimit /\ RowAsked.px = lo.x /\ RowAsked.py = lo.y
      /\ RowAsked.lo.x = lo.x /\ RowAsked.lo.y = lo.y + h /\ RowAsked.lo.curMaxHeight = 0
      /\ RowAsked.lo.curBaseline = lo.curBaseline /\ RowAsked.lo.imageConp = lo.imageConp
      /\ RowAsked.lo.indent = 0 /\ RowAsked.lo.lastMaxHeight = lo.lastMaxHeight
      /\ RowAsked.lo.lastBaseline = lo.lastBaseline
  <2> HIDE DEF h
  <2> QED BY <1>1, <1>2, RowPlaced
<1>4. RowBox = Box(from + Len(rows), Here.w, h, r)
      BY DEF RowBox
<1>5. r.px = RowAsked.px /\ r.py = RowAsked.py + h
  <2>1. RowAsked = Result(RowAsked.ret, RowAsked.lo, RowAsked.px, RowAsked.py)
        BY <1>2, Zenon DEF GetTablePos, PageFull, Result
  <2> HIDE DEF h
  <2> QED BY <2>1 DEF Result
<1> HIDE DEF h, r
<1>6. /\ RowBox.left = r.px /\ RowBox.right = r.px + Here.w
      /\ RowBox.top = r.py - h /\ RowBox.bottom = r.py /\ RowBox.item = next /\ RowBox.live
      BY <1>4, BoxPlace
<1>7. /\ RowBox.left = lo.x /\ RowBox.right = lo.x + Here.w /\ RowBox.top = lo.y
      /\ RowBox.bottom = lo.y + h
      BY <1>1, <1>3, <1>5, <1>6
<1>8. lo.y <= lo.y + h
      BY <1>1
<1>9. RowBox \in BoxType
      BY RowAskedType
<1> QED BY <1>1, <1>3, <1>6, <1>7, <1>8, <1>9 DEF IsRow

\* With a row the table grows by what stands under it.
LEMMA RowSettles ==
  ASSUME TypeOK, RowsOfTable, RowsInHand, PlacesInv, Setting({"table"}), RowAsked.ret = "OK",
         UNCHANGED <<items, st>>, lo' = RowAsked.lo,
         Settled' = Settled \cup {RowBox}, Waiting' = {}
  PROVE  PlacesInv'
<1>1. /\ st = "set" /\ AllApart(Settled) /\ SettingInv /\ ~AtEnd
      /\ lo.y \in Int /\ RowAsked.lo.y \in Int
      BY RowAskedType, FieldTypes DEF Setting, PlacesInv, TypeOK
<1>2. items[next].kind = "table" /\ FigureNext
  <2>1. ~AtEnd /\ items[next].kind = "table" /\ next \in DOMAIN items
        BY RowHeight, HereType
  <2> QED BY <2>1, ItemsType DEF FigureNext
<1>3. BlankLine /\ Heights /\ (\A s \in Settled : s.bottom <= lo.y)
      BY <1>1, <1>2 DEF SettingInv
<1> DEFINE g == RowBox
<1>4. /\ g.top = lo.y /\ g.bottom = lo'.y /\ lo.y <= lo'.y
      /\ lo'.x = lo.x /\ lo'.curMaxHeight = 0 /\ lo'.indent = 0
      /\ lo'.curBaseline = lo.curBaseline /\ lo'.imageConp = lo.imageConp
      /\ lo'.lastMaxHeight = lo.lastMaxHeight
      BY RowPlace
<1> HIDE DEF g
<1>5. /\ lo'.x \in {HMargin, VMargin} /\ lo'.imageConp = 0 /\ lo'.curBaseline = 0
      /\ 0 <= lo'.lastMaxHeight
      BY <1>3, <1>4 DEF BlankLine, Heights
<1>6. Settled' = Settled \cup {g}
      BY DEF g
<1>7. \A s \in Settled : s.bottom <= lo.y /\ s.bottom \in Int
      BY <1>3, BoxesTyped
<1>8. \A s \in Settled' : s.bottom <= lo'.y
      BY <1>1, <1>4, <1>6, <1>7
<1>9. AllApart(Settled')
  <2>1. \A s \in Settled : s.bottom <= g.top
        BY <1>3, <1>4
  <2>2. \A a, b \in Settled : a # b => Apart(a, b)
        BY <1>1 DEF AllApart
  <2> QED BY <1>6, <2>1, <2>2 DEF AllApart, Apart
<1>10. \A a, b \in Waiting' : a # b => Beside(a, b)
       OBVIOUS
<1>11. \A s \in Waiting' : /\ s.top = lo'.y /\ s.right <= lo'.x /\ s.bottom <= lo'.y + lo'.curMaxHeight
                           /\ items[s.item].kind = "char" => s.bottom = s.top + items[s.item].b
       OBVIOUS
<1>12. /\ lo'.curBaseline <= lo'.curMaxHeight /\ 0 <= lo'.imageConp
       /\ lo'.imageConp <= lo'.curMaxHeight
       BY <1>4, <1>5
<1>13. UNCHANGED items /\ st' = "set"
       BY <1>1
<1> QED BY <1>4, <1>5, <1>8, <1>9, <1>10, <1>11, <1>12, <1>13, StillSetting

LEMMA BoxesRow ==
  ASSUME TypeOK, RowsOfTable, RowsInHand, PlacesInv, SetRow \/ SetLastRow
  PROVE  Settled' = Settled \cup {RowBox} /\ Waiting' = {}
<1>1. /\ UNCHANGED <<items, ink, st>> /\ lo' = RowAsked.lo
      /\ Setting({"table"}) /\ RowAsked.ret = "OK"
      BY DEF SetRow, SetLastRow, document
<1>2. /\ RowBox \in BoxType /\ RowBox.live /\ IsRow(RowBox)
      BY <1>1, RowPlace
<1>3. Waiting = {}
  <2>1. SettingInv /\ ~AtEnd /\ items[next].kind = "table" /\ next \in DOMAIN items
        BY <1>1, RowHeight, HereType DEF Setting, PlacesInv
  <2> QED BY <2>1, ItemsType DEF FigureNext, SettingInv
<1>4. line \in Seq(BoxType) /\ rows \in Seq(BoxType) /\ Append(rows, RowBox) \in Seq(BoxType)
      BY <1>2, AppendProperties DEF TypeOK
<1>5. CASE SetRow
  <2>1. line' = line /\ rows' = Append(rows, RowBox)
        BY <1>5 DEF SetRow
  <2>2. Boxes(rows') = Boxes(rows) \cup {RowBox}
        BY <1>2, <1>4, <2>1, BoxesAppend
  <2>3. Settled' = Settled \cup {RowBox} /\ Waiting' = {}
        BY <1>1, <1>3, <2>1, <2>2, BoxesAfter, Zenon DEF Settled, Waiting
  <2> QED BY <2>3
<1>6. CASE SetLastRow
  <2>1. line' = line \o Append(rows, RowBox) /\ rows' = <<>>
        BY <1>6 DEF SetLastRow
  <2>2. \A g \in Boxes(rows) : g.live /\ IsRow(g)
    <3>1. items[next].kind = "table"
          BY <1>1, RowHeight
    <3> QED BY <3>1 DEF RowsInHand, Boxes, IsRow
  <2>3. Live(Append(rows, RowBox)) = Boxes(rows) \cup {RowBox}
    <3>1. Live(Append(rows, RowBox)) = Live(rows) \cup {RowBox}
          BY <1>2, <1>4, LivesOf
    <3>2. Live(rows) = Boxes(rows)
          BY <2>2 DEF Live
    <3> QED BY <3>1, <3>2
  <2>4. Live(line') = Live(line) \cup Boxes(rows) \cup {RowBox}
    <3>1. Live(line \o Append(rows, RowBox)) = Live(line) \cup Live(Append(rows, RowBox))
          BY <1>4, LivesOf, Zenon
    <3> QED BY <2>1, <2>3, <3>1
  <2>5. Boxes(rows') = {}
        BY <2>1, BoxesEmpty
  <2>6. {g \in Live(line') : IsRow(g)}
          = {g \in Live(line) : IsRow(g)} \cup Boxes(rows) \cup {RowBox}
        BY <1>2, <2>2, <2>4
  <2>7. {g \in Live(line') : ~IsRow(g)} = {g \in Live(line) : ~IsRow(g)}
        BY <1>2, <2>2, <2>4
  <2>8. Settled' = Settled \cup {RowBox}
    <3>1. Settled' = ink \cup {g \in Live(line') : IsRow(g)} \cup Boxes(rows')
          BY <1>1, BoxesAfter
    <3> QED BY <2>5, <2>6, <3>1 DEF Settled
  <2>9. Waiting' = {}
        BY <1>1, <1>3, <2>7, BoxesAfter DEF Waiting
  <2> QED BY <2>8, <2>9
<1> QED BY <1>5, <1>6

LEMMA PlacesRow ==
  ASSUME TypeOK, RowsOfTable, RowsInHand, PlacesInv, SetRow \/ SetLastRow
  PROVE  PlacesInv'
<1>1. /\ UNCHANGED <<items, st>> /\ lo' = RowAsked.lo
      /\ Setting({"table"}) /\ RowAsked.ret = "OK"
      BY DEF SetRow, SetLastRow, document
<1> QED BY <1>1, BoxesRow, RowSettles

-----------------------------------------------------------------------------
(* Pages that are finished, and turned.                                     *)

LEMMA ResetBlank ==
  ASSUME NEW l
  PROVE  Reset(l).curBaseline = 0 /\ Reset(l).imageConp = 0 /\ Reset(l).lastBaseline = 0
BY DEF Reset, NewLayout

LEMMA FirstBlank ==
  LET l == NewPage(NewLayout)
  IN  l.curBaseline = 0 /\ l.imageConp = 0 /\ l.lastBaseline = 0 /\ l.y = HMargin + CtorSpacing
<1> DEFINE m == [NewLayout EXCEPT !.x = VMargin, !.y = HMargin + (CtorSpacing + 0 - 0),
                                  !.lastBaseline = 0, !.curBaseline = 0]
<1>1. m.curBaseline = 0 /\ m.imageConp = 0 /\ m.lastBaseline = 0
      /\ m.y = HMargin + (CtorSpacing + 0 - 0)
      BY DEF NewLayout
<1>2. NewPage(NewLayout) = m
      BY DEF NewPage, NewLayout
<1>3. HMargin + (CtorSpacing + 0 - 0) = HMargin + CtorSpacing
      BY LayoutAssumption DEF LayoutAssumption
<1> HIDE DEF m
<1> QED BY <1>1, <1>2, <1>3

LEMMA PlacesBreakPage ==
  ASSUME TypeOK, RowsOfTable, PlacesInv, LettersStand, SpacingGuards, BreakPage
  PROVE  PlacesInv'
<1>1. /\ UNCHANGED <<items, rows>> /\ st' = "shown" /\ line' = Freed(<<>>)
      /\ lo' = Reset(Asked.lo) /\ Setting({"char", "graph", "break"}) /\ DrawFlush(Asked.lo)
      BY DEF BreakPage, document, Dup
<1>2. rows = <<>> /\ AllApart(Settled) /\ SettingInv /\ Asked.lo \in Layout /\ lo.indent = 0
      BY <1>1, Setup
<1>3. AllApart(ink')
      BY <1>1, <1>2, FlushApart
<1>4. lo'.indent = 0
      BY <1>1, <1>2, AskedIndent, ResetFields
<1>5. Live(line') = {} /\ rows' = <<>>
      BY <1>1, <1>2, LivesOf
<1> QED BY <1>1, <1>3, <1>4, <1>5, ResetFields, ResetBlank, PageFinished

LEMMA InkOfTable ==
  ASSUME TypeOK, BreakTable
  PROVE  ink' \subseteq Settled
<1>1. ink' = ink \cup {rows[k] : k \in RowsDrawn}
      BY DEF BreakTable
<1>2. Len(rows) \in Nat /\ DOMAIN rows = 1 .. Len(rows)
      BY LenProperties DEF TypeOK
<1>3. \A k \in RowsDrawn : k \in DOMAIN rows
      BY <1>2 DEF RowsDrawn, RowSplit
<1> QED BY <1>1, <1>3, Zenon DEF Settled, Boxes

LEMMA PlacesBreakTable ==
  ASSUME TypeOK, RowsOfTable, PlacesInv, BreakTable
  PROVE  PlacesInv'
<1>1. /\ UNCHANGED items /\ st' = "shown" /\ line' = Freed(<<>>) /\ rows' = <<>>
      /\ lo' = RowAsked.lo /\ Setting({"table"}) /\ RowAsked.ret = "NEW_PAGE"
      BY DEF BreakTable, document, Dup
<1>2. AllApart(Settled) /\ SettingInv /\ lo \in Layout /\ lo.indent = 0
      BY <1>1 DEF TypeOK, Setting, PlacesInv
<1>3. ink' \subseteq Settled
      BY InkOfTable
<1>4. AllApart(ink')
      BY <1>2, <1>3, Zenon DEF AllApart
<1>5. /\ lo'.x = VMargin /\ lo'.curMaxHeight = 0 /\ lo'.curBaseline = 0 /\ lo'.imageConp = 0
      /\ lo'.indent = 0 /\ lo'.lastMaxHeight = lo.lastMaxHeight
  <2> DEFINE h == Here.rows[from + Len(rows)]
  <2>1. h \in Int /\ RowAsked = GetTablePos(lo, h)
        BY <1>1, RowHeight DEF RowAsked
  <2> HIDE DEF h
  <2> QED BY <1>1, <1>2, <2>1, RowPlaced
<1>6. 0 <= lo'.lastMaxHeight
      BY <1>2, <1>5 DEF SettingInv, Heights
<1>7. Live(line') = {}
      BY <1>1, LivesOf
<1> QED BY <1>1, <1>4, <1>5, <1>6, <1>7, PageFinished

LEMMA PlacesEnd ==
  ASSUME TypeOK, RowsOfTable, PlacesInv, EndDocument
  PROVE  PlacesInv'
<1>1. /\ UNCHANGED <<items, rows, lo>> /\ st' = "shown" /\ line' = Freed(line) /\ ended'
      /\ st = "set" /\ AtEnd /\ DrawFlush(lo)
      BY DEF EndDocument, document
<1>2. rows = <<>>
      BY <1>1, ItemsType DEF RowsOfTable, AtEnd, TypeOK
<1>3. AllApart(ink')
      BY <1>1, <1>2, FlushApart DEF PlacesInv, TypeOK
<1>4. Live(line') = {} /\ lo'.indent = 0
      BY <1>1, LivesOf DEF TypeOK, PlacesInv
<1> QED BY <1>1, <1>2, <1>3, <1>4, PageFinished

LEMMA PlacesTurned ==
  ASSUME TypeOK, RowsOfTable, PlacesInv, NextPage \/ \E p \in 1 .. MaxPages : EarlierPage(p)
  PROVE  PlacesInv'
<1>1. /\ UNCHANGED <<items, rows, line>> /\ st = "shown" /\ st' = "set" /\ ink' = {}
      BY DEF NextPage, EarlierPage, document
<1>2. rows' = <<>> /\ Live(line') = {}
      BY <1>1 DEF RowsOfTable, PlacesInv
<1>3. /\ lo'.indent = 0 /\ lo'.x \in {HMargin, VMargin} /\ lo'.curMaxHeight = 0
      /\ lo'.imageConp = 0 /\ lo'.curBaseline = 0 /\ 0 <= lo'.lastMaxHeight
  <2>1. CASE NextPage
        BY <1>1, <2>1 DEF NextPage, PlacesInv, BlankLine, Heights
  <2>2. CASE \E p \in 1 .. MaxPages : EarlierPage(p)
    <3>1. lo' = Reset(lo) /\ lo.indent = 0
          BY <2>2 DEF EarlierPage, PlacesInv
    <3> QED BY <3>1, ResetFields, ResetBlank
  <2> QED BY <2>1, <2>2
<1> QED BY <1>1, <1>2, <1>3, PageBegun

LEMMA PlacesStutter ==
  ASSUME PlacesInv, UNCHANGED vars
  PROVE  PlacesInv'
BY DEF vars, document, place, PlacesInv, AllApart, Apart, Settled, Waiting, IsRow, Live, Boxes,
       SettingInv, Heights, BlankLine, FigureNext, OnLine, Beside

LEMMA PlacesNext ==
  ASSUME TypeOK, RowsOfTable, RowsInHand, PlacesInv, LettersStand, SpacingGuards,
         FiguresBeginLines, [Next]_vars
  PROVE  PlacesInv'
<1>1. CASE SetOnLine BY <1>1, PlacesOnLine
<1>2. CASE SetOnNextLine BY <1>2, PlacesOnNextLine
<1>3. CASE SetBreak BY <1>3, PlacesBreak
<1>4. CASE SkipImage BY <1>4, PlacesSkip
<1>5. CASE BreakPage BY <1>5, PlacesBreakPage
<1>6. CASE SetRow \/ SetLastRow BY <1>6, PlacesRow
<1>7. CASE BreakTable BY <1>7, PlacesBreakTable
<1>8. CASE EndDocument BY <1>8, PlacesEnd
<1>9. CASE NextPage \/ \E p \in 1 .. MaxPages : EarlierPage(p)
      BY <1>9, PlacesTurned
<1>10. CASE UNCHANGED vars BY <1>10, PlacesStutter
<1> QED BY <1>1, <1>2, <1>3, <1>4, <1>5, <1>6, <1>7, <1>8, <1>9, <1>10 DEF Next

LEMMA PlacesInit == Init => PlacesInv
<1> SUFFICES ASSUME Init PROVE PlacesInv
    OBVIOUS
<1>1. ink = {} /\ rows = <<>> /\ line = <<>> /\ st = "set" /\ lo = NewPage(NewLayout)
      BY DEF Init
<1>2. Settled = {} /\ Waiting = {}
      BY <1>1, BoxesEmpty, LivesOf DEF Settled, Waiting
<1>3. /\ lo.x = VMargin /\ lo.curMaxHeight = 0 /\ lo.lastMaxHeight = 0 /\ lo.indent = 0
      /\ lo.curBaseline = 0 /\ lo.imageConp = 0
      BY <1>1, FirstPage, FirstBlank
<1>4. SettingInv
      BY <1>2, <1>3 DEF SettingInv, Heights, BlankLine
<1> QED BY <1>1, <1>2, <1>3, <1>4 DEF PlacesInv, AllApart

\* Glyphs of a page never cover each other, whatever the heights of the
\* characters and images on a line, however pages, lines and tables break, and
\* after turning back.
THEOREM NothingOverprints ==
  ASSUME LettersStand, FiguresBeginLines, SpacingGuards
  PROVE  Spec => []NoOverprint
<1>1. Init => RowsInHand
      BY DEF Init, RowsInHand
<1>2. PlacesInv => NoOverprint
      BY DEF PlacesInv, AllApart, Settled, NoOverprint
<1> QED BY <1>1, <1>2, TypesInit, TypesNext, RowsInHandNext, PlacesInit, PlacesNext, PTL DEF Spec

-----------------------------------------------------------------------------
(* Everything is on the paper.                                              *)

InPaper(g) == 0 <= g.left /\ g.right <= PWidth /\ 0 <= g.top /\ g.bottom <= PHeight

\* The margins leave room for a page.
MarginsFit ==
  HMargin >= 0 /\ VMargin >= 0 /\ CtorSpacing >= 0 /\ HMargin + CtorSpacing <= YLimit

\* A character is no higher than the lower margin, and neither it nor a table
\* is wider than the paper; nothing need be said of images, which are scaled.
GlyphsFit ==
  \A d \in Documents : \A k \in DOMAIN d :
    /\ d[k].kind = "char"  => d[k].h <= VMargin /\ HMargin + d[k].w <= PWidth
    /\ d[k].kind = "table" => HMargin + d[k].w <= PWidth /\ VMargin + d[k].w <= PWidth

\* A character is placed without asking whether its line ends above the lower
\* margin; it may reach into the margin by its height.
PaperInv ==
  /\ \A g \in Settled : InPaper(g)
  /\ \A g \in Waiting : InPaper(g)
  /\ 0 <= lo.x /\ 0 <= lo.y /\ lo.y <= YLimit
  /\ lo.curBaseline <= VMargin /\ lo.lastBaseline <= VMargin

LEMMA PaperSizes ==
  ASSUME SpacingGuards, MarginsFit
  PROVE  /\ HMargin \in Nat /\ VMargin \in Nat /\ CtorSpacing \in Nat
         /\ LineSpacing \in Nat /\ WordSpacing \in Nat
         /\ PWidth \in Int /\ PHeight \in Int /\ XLimit \in Int /\ YLimit \in Int
         /\ XLimit <= PWidth /\ YLimit + VMargin = PHeight /\ HMargin <= YLimit
BY LayoutAssumption DEF LayoutAssumption, SpacingGuards, MarginsFit, XLimit, YLimit

LEMMA StillOnPaper ==
  ASSUME \A z \in Settled' : InPaper(z), \A z \in Waiting' : InPaper(z),
         0 <= lo'.x, 0 <= lo'.y, lo'.y <= YLimit,
         lo'.curBaseline <= VMargin, lo'.lastBaseline <= VMargin
  PROVE  PaperInv'
<1>1. (\A g \in Settled : InPaper(g))' /\ (\A g \in Waiting : InPaper(g))'
      BY DEF InPaper
<1>2. /\ (0 <= lo.x)' /\ (0 <= lo.y)' /\ (lo.y <= YLimit)'
      /\ (lo.curBaseline <= VMargin)' /\ (lo.lastBaseline <= VMargin)'
      BY DEF YLimit
<1> QED BY <1>1, <1>2 DEF PaperInv

\* Characters that move to a baseline within the margin stay on the paper.
LEMMA FlushOnPaper ==
  ASSUME TypeOK, SettingInv, PaperInv, SpacingGuards, MarginsFit,
         NEW after \in Layout, DrawFlush(after), rows = <<>>, after.lastBaseline <= VMargin
  PROVE  \A g \in ink' : InPaper(g)
<1>1. after.lastBaseline \in Int /\ lo.y \in Int
      BY FieldTypes DEF TypeOK
<1>2. ink' = Settled \cup {Adjusted(g, after.lastBaseline) : g \in Waiting}
      BY FlushSettles
<1>3. ASSUME NEW g \in Waiting PROVE InPaper(Adjusted(g, after.lastBaseline))
  <2> DEFINE a == Adjusted(g, after.lastBaseline)
             b == items[g.item].b
  <2>1. /\ g \in BoxType /\ g.item \in DOMAIN items
        /\ g.left \in Int /\ g.right \in Int /\ g.top \in Int /\ g.bottom \in Int
        BY BoxesTyped
  <2>2. b \in Int
        BY <2>1, ItemsType, ItemFields
  <2>3. a \in BoxType
        BY <1>1, <2>1, AdjustedType
  <2>4. a.top \in Int /\ a.bottom \in Int
        BY <2>3, BoxesTyped
  <2>5. /\ a.left = g.left /\ a.right = g.right /\ g.top <= a.top
        /\ a.bottom = g.bottom
             \/ (items[g.item].kind = "char" /\ a.bottom = g.bottom + (after.lastBaseline - b))
        BY <1>1, <2>1, AdjustedPlace
  <2>6. /\ InPaper(g) /\ lo.y <= YLimit
        /\ g.top = lo.y /\ (items[g.item].kind = "char" => g.bottom = g.top + b)
        BY DEF PaperInv, SettingInv, OnLine
  <2> HIDE DEF a, b
  <2>7. a.bottom <= PHeight
    <3>1. CASE a.bottom = g.bottom
          BY <2>6, <3>1 DEF InPaper
    <3>2. CASE items[g.item].kind = "char" /\ a.bottom = g.bottom + (after.lastBaseline - b)
      <4>1. a.bottom = lo.y + b + (after.lastBaseline - b)
            BY <2>6, <3>2
      <4>2. a.bottom = lo.y + after.lastBaseline
            BY <1>1, <2>2, <4>1
      <4> QED BY <1>1, <2>6, <4>2, PaperSizes
    <3> QED BY <2>5, <3>1, <3>2
  <2>8. 0 <= a.top
        BY <2>1, <2>4, <2>5, <2>6 DEF InPaper
  <2>9. InPaper(a)
        BY <2>5, <2>6, <2>7, <2>8 DEF InPaper
  <2> QED BY <2>9 DEF a
<1> QED BY <1>2, <1>3 DEF PaperInv

\* The character in hand is within bounds.
LEMMA CharFits ==
  ASSUME TypeOK, LettersStand, SpacingGuards, GlyphsFit, ~AtEnd, Here.kind = "char"
  PROVE  Here.h \in Nat /\ Here.w \in Nat /\ Here.h <= VMargin /\ HMargin + Here.w <= PWidth
<1>1. next \in DOMAIN items /\ items[next].kind = "char" /\ items \in Documents
      BY HereType DEF TypeOK
<1>2. Here = items[next]
      BY <1>1 DEF Here
<1> QED BY <1>1, <1>2, HereSize DEF GlyphsFit

LEMMA PaperOnLine ==
  ASSUME TypeOK, RowsOfTable, PlacesInv, PaperInv, LettersStand, SpacingGuards, MarginsFit,
         GlyphsFit, SetOnLine
  PROVE  PaperInv'
<1> DEFINE g == Box(1, Here.w, Here.h, Asked)
<1>1. /\ lo' = Asked.lo /\ Asked.ret = "OK"
      /\ Here.kind \in {"char", "graph"} /\ Setting({"char", "graph", "break"})
      BY DEF SetOnLine, Setting
<1>2. /\ ~AtEnd /\ SettingInv /\ lo.indent = 0 /\ lo \in Layout
      /\ Here.kind = items[next].kind /\ Here.w \in Int /\ Here.h \in Int
      BY <1>1, Setup
<1>n. /\ lo.x \in Int /\ lo.y \in Int /\ lo.curBaseline \in Int /\ lo.lastBaseline \in Int
      /\ 0 <= lo.x /\ 0 <= lo.y /\ lo.y <= YLimit
      /\ lo.curBaseline <= VMargin /\ lo.lastBaseline <= VMargin
      BY <1>2, FieldTypes DEF PaperInv
<1>3. /\ g.left = Asked.px /\ g.right = Asked.px + Here.w
      /\ g.top = Asked.py - Here.h /\ g.bottom = Asked.py
      BY BoxPlace
<1>4. Settled' = Settled /\ Waiting' = Waiting \cup {g}
      BY BoxesOnLine
<1> HIDE DEF g
<1>5. /\ InPaper(g) /\ 0 <= lo'.x /\ lo'.y = lo.y
      /\ lo'.curBaseline <= VMargin /\ lo'.lastBaseline <= VMargin
  <2>1. CASE Here.kind = "char"
    <3>1. Asked = GetCharPos(lo, Here.w, Here.h, Here.h)
          BY <1>2, <2>1, HereSize DEF Asked
    <3>2. Here.h \in Nat /\ Here.w \in Nat /\ Here.h <= VMargin /\ HMargin + Here.w <= PWidth
          BY <1>2, <2>1, CharFits
    <3> DEFINE base == Larger(lo.curBaseline, Here.h)
    <3>3. /\ lo.x + WordSpacing + Here.w < XLimit
          /\ Asked.px = lo.x /\ Asked.py = lo.y + Here.h
          /\ lo'.x = lo.x + Here.w + WordSpacing /\ lo'.y = lo.y
          /\ lo'.curBaseline = base /\ lo'.lastBaseline = lo.lastBaseline
          BY <1>1, <1>2, <3>1, CharPlaced
    <3>4. base <= VMargin
          BY <1>n, <3>2 DEF Larger
    <3> HIDE DEF base
    <3>5. InPaper(g) /\ 0 <= lo'.x
          BY <1>n, <1>3, <3>2, <3>3, PaperSizes DEF InPaper
    <3> QED BY <1>n, <3>3, <3>4, <3>5
  <2>2. CASE Here.kind = "graph"
    <3>1. FigureNext
          BY <1>2, <2>2, HereType, ItemsType DEF FigureNext
    <3>2. lo.curMaxHeight = 0 /\ lo.imageConp = 0 /\ lo.curBaseline = 0
          BY <1>2, <3>1 DEF SettingInv, BlankLine
    <3>3. Asked = GetGraphPos(lo, Here.w, Here.h) /\ Here.h \in Nat /\ Here.w \in Nat
          BY <1>2, <2>2, HereSize DEF Asked
    <3>4. /\ lo.x + WordSpacing + Here.w < XLimit /\ lo.y + LineSpacing + Here.h < YLimit
          /\ Asked.px = lo.x /\ Asked.py = lo.y + Here.h
          /\ lo'.x = lo.x + Here.w + WordSpacing /\ lo'.y = lo.y
          /\ lo'.curBaseline = lo.curBaseline /\ lo'.lastBaseline = lo.lastBaseline
      <4>1. lo \in Layout /\ lo.indent = 0 /\ lo.curMaxHeight = 0 /\ lo.imageConp = 0
            /\ Here.w \in Int /\ Here.h \in Int /\ Here.h >= 0
            BY <1>2, <3>2, <3>3
      <4> QED BY <1>1, <3>3, <4>1, GraphPlaced
    <3>5. InPaper(g) /\ 0 <= lo'.x
          BY <1>n, <1>3, <3>3, <3>4, PaperSizes DEF InPaper
    <3> QED BY <1>n, <3>4, <3>5
  <2> QED BY <1>1, <2>1, <2>2
<1>6. (\A z \in Settled' : InPaper(z)) /\ (\A z \in Waiting' : InPaper(z))
      BY <1>4, <1>5, Zenon DEF PaperInv
<1> QED BY <1>n, <1>5, <1>6, StillOnPaper

LEMMA PaperOnNextLine ==
  ASSUME TypeOK, RowsOfTable, PlacesInv, PaperInv, LettersStand, SpacingGuards, MarginsFit,
         GlyphsFit, SetOnNextLine
  PROVE  PaperInv'
<1> DEFINE g == Box(1, Here.w, Here.h, Asked)
<1>1. /\ lo' = Asked.lo /\ Asked.ret = "NEW_LINE" /\ DrawFlush(Asked.lo)
      /\ Here.kind \in {"char", "graph"} /\ Setting({"char", "graph", "break"})
      BY DEF SetOnNextLine, Setting
<1>2. /\ ~AtEnd /\ rows = <<>> /\ SettingInv /\ lo.indent = 0 /\ lo \in Layout /\ Asked.lo \in Layout
      /\ Here.kind = items[next].kind /\ Here.w \in Int /\ Here.h \in Int
      BY <1>1, Setup
<1>n. /\ lo.x \in Int /\ lo.y \in Int /\ lo.curBaseline \in Int /\ lo.lastBaseline \in Int
      /\ lo.imageConp \in Int /\ lo.curMaxHeight \in Int
      /\ 0 <= lo.x /\ 0 <= lo.y /\ lo.y <= YLimit
      /\ lo.curBaseline <= VMargin /\ lo.lastBaseline <= VMargin
      BY <1>2, FieldTypes DEF PaperInv
<1>3. /\ g.left = Asked.px /\ g.right = Asked.px + Here.w
      /\ g.top = Asked.py - Here.h /\ g.bottom = Asked.py
      BY BoxPlace
<1>4. Settled' = ink' /\ Waiting' = {g}
      BY BoxesOnNextLine
<1> HIDE DEF g
<1>5. /\ InPaper(g) /\ 0 <= lo'.x /\ 0 <= lo'.y /\ lo'.y <= YLimit
      /\ lo'.curBaseline <= VMargin /\ lo'.lastBaseline <= VMargin
  <2>1. CASE Here.kind = "char"
    <3>1. Asked = GetCharPos(lo, Here.w, Here.h, Here.h)
          BY <1>2, <2>1, HereSize DEF Asked
    <3>2. Here.h \in Nat /\ Here.w \in Nat /\ Here.h <= VMargin /\ HMargin + Here.w <= PWidth
          BY <1>2, <2>1, CharFits
    <3> DEFINE base == Larger(lo.curBaseline, Here.h)
               high == Larger(lo.curMaxHeight, base)
    <3>3. /\ lo.y + LineSpacing + high + high < YLimit
          /\ Asked.px = HMargin /\ Asked.py = lo.y + LineSpacing + high + Here.h
          /\ lo'.x = HMargin + Here.w + WordSpacing /\ lo'.y = lo.y + LineSpacing + high
          /\ lo'.curBaseline = Here.h /\ lo'.lastBaseline = base - lo.imageConp
          BY <1>1, <1>2, <3>1, CharPlaced
    <3>4. base <= VMargin /\ base \in Int /\ high \in Int /\ base <= high /\ 0 <= base
          BY <1>n, <3>2 DEF Larger
    <3> HIDE DEF base, high
    <3>5. 0 <= lo.imageConp
          BY <1>2 DEF SettingInv, Heights
    <3>6. lo.y + LineSpacing + high <= YLimit /\ 0 <= lo.y + LineSpacing + high
          BY <1>n, <3>3, <3>4, PaperSizes
    <3>7. InPaper(g) /\ 0 <= lo'.x
          BY <1>n, <1>3, <3>2, <3>3, <3>4, <3>6, PaperSizes DEF InPaper
    <3>8. lo'.lastBaseline <= VMargin
          BY <1>n, <3>3, <3>4, <3>5, PaperSizes
    <3> QED BY <3>2, <3>3, <3>6, <3>7, <3>8
  <2>2. CASE Here.kind = "graph"
    <3>1. FigureNext
          BY <1>2, <2>2, HereType, ItemsType DEF FigureNext
    <3>2. lo.curMaxHeight = 0 /\ lo.imageConp = 0 /\ lo.curBaseline = 0
          BY <1>2, <3>1 DEF SettingInv, BlankLine
    <3>3. /\ Asked = GetGraphPos(lo, Here.w, Here.h) /\ Here.h \in Nat /\ Here.w \in Nat
          /\ Here.w <= PageW
          BY <1>2, <2>2, HereSize DEF Asked
    <3>4. /\ lo.y + LineSpacing + Here.h < YLimit
          /\ Asked.px = HMargin /\ Asked.py = lo.y + Here.h
          /\ lo'.x = HMargin + Here.w + WordSpacing /\ lo'.y = lo.y
          /\ lo'.curBaseline = 0 /\ lo'.lastBaseline = lo.curBaseline
      <4>1. lo \in Layout /\ lo.indent = 0 /\ lo.curMaxHeight = 0 /\ lo.imageConp = 0
            /\ Here.w \in Int /\ Here.h \in Int /\ Here.h >= 0
            BY <1>2, <3>2, <3>3
      <4> QED BY <1>1, <3>3, <4>1, GraphPlaced
    <3>5. HMargin + Here.w <= PWidth
          BY <3>3, PaperSizes DEF PageW
    <3>6. InPaper(g) /\ 0 <= lo'.x
          BY <1>n, <1>3, <3>3, <3>4, <3>5, PaperSizes DEF InPaper
    <3> QED BY <1>n, <3>2, <3>4, <3>6, PaperSizes
  <2> QED BY <1>1, <2>1, <2>2
<1>6. \A z \in ink' : InPaper(z)
      BY <1>1, <1>2, <1>5, FlushOnPaper
<1>7. (\A z \in Settled' : InPaper(z)) /\ (\A z \in Waiting' : InPaper(z))
      BY <1>4, <1>5, <1>6, Zenon
<1> QED BY <1>5, <1>7, StillOnPaper

LEMMA PaperBreak ==
  ASSUME TypeOK, RowsOfTable, PlacesInv, PaperInv, LettersStand, SpacingGuards, MarginsFit, SetBreak
  PROVE  PaperInv'
<1>1. /\ UNCHANGED <<items, rows>> /\ line' = <<>> /\ lo' = Asked.lo
      /\ Here.kind = "break" /\ Setting({"char", "graph", "break"})
      /\ Asked.ret = "OK" /\ DrawFlush(Asked.lo)
      BY DEF SetBreak, Setting, document, Dup
<1>2. rows = <<>> /\ SettingInv /\ lo \in Layout /\ Asked.lo \in Layout
      BY <1>1, Setup
<1>n. /\ lo.y \in Int /\ lo.curMaxHeight \in Int /\ lo.lastMaxHeight \in Int
      /\ lo.imageConp \in Int
      /\ 0 <= lo.y /\ lo.curBaseline <= VMargin
      BY <1>2, FieldTypes DEF PaperInv
<1>3. Settled' = ink' /\ Waiting' = {}
      BY <1>1, <1>2, BoxesAfter, BoxesEmpty, LivesOf
<1>4. Asked = NewLine(lo)
      BY <1>1 DEF Asked
<1>5. /\ lo'.y = lo.y + LineSpacing + (IF lo.curMaxHeight = 0 THEN lo.lastMaxHeight
                                                             ELSE lo.curMaxHeight)
      /\ lo'.x = HMargin /\ lo'.y < YLimit /\ lo'.curBaseline = 0
      /\ lo'.lastBaseline = lo.curBaseline
      BY <1>1, <1>2, <1>4, LinePlaced
<1>6. 0 <= lo'.y /\ lo'.y <= YLimit
  <2>1. 0 <= lo.curMaxHeight /\ 0 <= lo.lastMaxHeight
        BY <1>n, <1>2 DEF SettingInv, Heights
  <2> QED BY <1>n, <1>5, <2>1, PaperSizes
<1>7. \A z \in ink' : InPaper(z)
      BY <1>n, <1>1, <1>2, <1>5, FlushOnPaper
<1>8. (\A z \in Settled' : InPaper(z)) /\ (\A z \in Waiting' : InPaper(z))
      BY <1>3, <1>7, Zenon
<1> QED BY <1>n, <1>5, <1>6, <1>8, PaperSizes, StillOnPaper

LEMMA PaperSkip ==
  ASSUME PaperInv, SkipImage
  PROVE  PaperInv'
<1>1. UNCHANGED <<items, lo, line, rows, ink>>
      BY DEF SkipImage, document
<1>2. Settled' = Settled /\ Waiting' = Waiting
      BY <1>1, BoxesAfter DEF Settled, Waiting
<1>3. (\A z \in Settled' : InPaper(z)) /\ (\A z \in Waiting' : InPaper(z))
      BY <1>2, Zenon DEF PaperInv
<1> QED BY <1>1, <1>3, StillOnPaper DEF PaperInv

LEMMA PaperRow ==
  ASSUME TypeOK, RowsOfTable, RowsInHand, PlacesInv, PaperInv, SpacingGuards, MarginsFit,
         GlyphsFit, SetRow \/ SetLastRow
  PROVE  PaperInv'
<1>1. Setting({"table"}) /\ RowAsked.ret = "OK" /\ lo' = RowAsked.lo
      BY DEF SetRow, SetLastRow
<1>2. Settled' = Settled \cup {RowBox} /\ Waiting' = {}
      BY BoxesRow
<1> DEFINE g == RowBox
<1>3. /\ g.left = lo.x /\ g.right = lo.x + Here.w /\ g.top = lo.y /\ g.bottom = lo'.y
      /\ lo.y <= lo'.y /\ lo'.y < YLimit /\ lo'.x = lo.x
      /\ lo'.curBaseline = lo.curBaseline /\ lo'.lastBaseline = lo.lastBaseline
      BY <1>1, RowPlace
<1>4. lo.x \in {HMargin, VMargin}
  <2>1. SettingInv /\ ~AtEnd /\ items[next].kind = "table" /\ next \in DOMAIN items
        BY <1>1, RowHeight, HereType DEF Setting, PlacesInv
  <2> QED BY <2>1, ItemsType DEF FigureNext, SettingInv, BlankLine
<1>5. lo.x + Here.w <= PWidth
  <2>1. next \in DOMAIN items /\ items[next].kind = "table" /\ items \in Documents
        BY <1>1, RowHeight, HereType DEF TypeOK
  <2>2. Here = items[next]
        BY <2>1 DEF Here
  <2> QED BY <1>4, <2>1, <2>2 DEF GlyphsFit
<1>6. lo.y \in Int /\ lo'.y \in Int /\ 0 <= lo.x /\ 0 <= lo.y
      /\ lo.curBaseline <= VMargin /\ lo.lastBaseline <= VMargin
      BY <1>1, RowAskedType, FieldTypes DEF TypeOK, PaperInv
<1> HIDE DEF g
<1>7. 0 <= lo'.y /\ lo'.y <= YLimit /\ lo'.y <= PHeight
      BY <1>3, <1>6, PaperSizes
<1>8. InPaper(g)
      BY <1>3, <1>5, <1>6, <1>7 DEF InPaper
<1>9. (\A z \in Settled' : InPaper(z)) /\ (\A z \in Waiting' : InPaper(z))
      BY <1>2, <1>8, Zenon DEF PaperInv, g
<1> QED BY <1>3, <1>6, <1>7, <1>9, StillOnPaper

LEMMA PaperBreakPage ==
  ASSUME TypeOK, RowsOfTable, PlacesInv, PaperInv, LettersStand, SpacingGuards, MarginsFit,
         GlyphsFit, BreakPage
  PROVE  PaperInv'
<1>1. /\ UNCHANGED <<items, rows>> /\ line' = Freed(<<>>) /\ lo' = Reset(Asked.lo)
      /\ Setting({"char", "graph", "break"}) /\ Asked.ret = "NEW_PAGE" /\ DrawFlush(Asked.lo)
      BY DEF BreakPage, document, Dup
<1>2. /\ ~AtEnd /\ rows = <<>> /\ SettingInv /\ lo.indent = 0 /\ lo \in Layout /\ Asked.lo \in Layout
      /\ Here.kind = items[next].kind /\ Here.w \in Int /\ Here.h \in Int
      BY <1>1, Setup
<1>n. lo.curBaseline \in Int /\ lo.curBaseline <= VMargin
      BY <1>2, FieldTypes DEF PaperInv
<1>3. Asked.lo.lastBaseline <= VMargin
  <2>1. CASE Here.kind = "char"
    <3>1. Asked = GetCharPos(lo, Here.w, Here.h, Here.h)
          BY <1>2, <2>1, HereSize DEF Asked
    <3>2. Here.h \in Nat /\ Here.h <= VMargin
          BY <1>2, <2>1, CharFits
    <3>3. Asked.lo.lastBaseline = Larger(lo.curBaseline, Here.h)
          BY <1>1, <1>2, <3>1, CharPlaced
    <3> QED BY <1>n, <3>2, <3>3 DEF Larger
  <2>2. CASE Here.kind = "graph"
    <3>1. FigureNext
          BY <1>2, <2>2, HereType, ItemsType DEF FigureNext
    <3>2. lo.curMaxHeight = 0 /\ lo.imageConp = 0
          BY <1>2, <3>1 DEF SettingInv, BlankLine
    <3>3. Asked = GetGraphPos(lo, Here.w, Here.h) /\ Here.h \in Nat
          BY <1>2, <2>2, HereSize DEF Asked
    <3>4. lo \in Layout /\ lo.indent = 0 /\ lo.curMaxHeight = 0 /\ lo.imageConp = 0
          /\ Here.w \in Int /\ Here.h \in Int /\ Here.h >= 0
          BY <1>2, <3>2, <3>3
    <3>5. Asked.lo.lastBaseline = lo.curBaseline
          BY <1>1, <3>3, <3>4, GraphPlaced
    <3> QED BY <1>n, <3>5
  <2>3. CASE Here.kind = "break"
    <3>1. Asked = NewLine(lo)
          BY <2>3 DEF Asked
    <3>2. Asked.lo.lastBaseline = lo.curBaseline
          BY <1>1, <1>2, <3>1, LinePlaced
    <3> QED BY <1>n, <3>2
  <2>4. Here.kind \in {"char", "graph", "break"}
        BY <1>1 DEF Setting
  <2> QED BY <2>1, <2>2, <2>3, <2>4
<1>4. \A z \in ink' : InPaper(z)
      BY <1>1, <1>2, <1>3, FlushOnPaper
<1>5. Settled' = ink' /\ Waiting' = {}
      BY <1>1, <1>2, BoxesAfter, BoxesEmpty, LivesOf
<1>6. (\A z \in Settled' : InPaper(z)) /\ (\A z \in Waiting' : InPaper(z))
      BY <1>4, <1>5, Zenon
<1>7. /\ lo'.x = VMargin /\ lo'.y = HMargin /\ lo'.curBaseline = 0 /\ lo'.lastBaseline = 0
      BY <1>1, ResetFields, ResetBlank
<1> QED BY <1>6, <1>7, PaperSizes, StillOnPaper

LEMMA PaperBreakTable ==
  ASSUME TypeOK, RowsOfTable, PlacesInv, PaperInv, SpacingGuards, MarginsFit, BreakTable
  PROVE  PaperInv'
<1>1. /\ UNCHANGED items /\ line' = Freed(<<>>) /\ rows' = <<>>
      /\ lo' = RowAsked.lo /\ Setting({"table"}) /\ RowAsked.ret = "NEW_PAGE"
      BY DEF BreakTable, document, Dup
<1>2. lo \in Layout /\ lo.indent = 0
      BY DEF TypeOK, PlacesInv
<1>3. ink' \subseteq Settled
      BY InkOfTable
<1>4. Settled' = ink' /\ Waiting' = {}
      BY <1>1, BoxesAfter, BoxesEmpty, LivesOf
<1>5. (\A z \in Settled' : InPaper(z)) /\ (\A z \in Waiting' : InPaper(z))
      BY <1>3, <1>4, Zenon DEF PaperInv
<1>6. lo'.x = VMargin /\ lo'.y = HMargin /\ lo'.curBaseline = 0 /\ lo'.lastBaseline = lo.curBaseline
  <2> DEFINE h == Here.rows[from + Len(rows)]
  <2>1. h \in Int /\ RowAsked = GetTablePos(lo, h)
        BY <1>1, RowHeight DEF RowAsked
  <2> HIDE DEF h
  <2> QED BY <1>1, <1>2, <2>1, RowPlaced
<1>7. lo.curBaseline <= VMargin
      BY DEF PaperInv
<1> QED BY <1>5, <1>6, <1>7, PaperSizes, StillOnPaper

LEMMA PaperEnd ==
  ASSUME TypeOK, RowsOfTable, PlacesInv, PaperInv, SpacingGuards, MarginsFit, EndDocument
  PROVE  PaperInv'
<1>1. /\ UNCHANGED <<items, rows, lo>> /\ line' = Freed(line)
      /\ st = "set" /\ AtEnd /\ DrawFlush(lo)
      BY DEF EndDocument, document
<1>2. rows = <<>>
      BY <1>1, ItemsType DEF RowsOfTable, AtEnd, TypeOK
<1>3. \A z \in ink' : InPaper(z)
      BY <1>1, <1>2, FlushOnPaper DEF PlacesInv, PaperInv, TypeOK
<1>4. Settled' = ink' /\ Waiting' = {}
      BY <1>1, <1>2, BoxesAfter, BoxesEmpty, LivesOf DEF TypeOK
<1>5. (\A z \in Settled' : InPaper(z)) /\ (\A z \in Waiting' : InPaper(z))
      BY <1>3, <1>4, Zenon
<1> QED BY <1>1, <1>5, StillOnPaper DEF PaperInv

LEMMA PaperTurned ==
  ASSUME TypeOK, RowsOfTable, PlacesInv, PaperInv, SpacingGuards, MarginsFit,
         NextPage \/ \E p \in 1 .. MaxPages : EarlierPage(p)
  PROVE  PaperInv'
<1>1. /\ UNCHANGED <<items, rows, line>> /\ st = "shown" /\ ink' = {}
      BY DEF NextPage, EarlierPage, document
<1>2. Settled' = {} /\ Waiting' = {}
  <2>1. rows' = <<>> /\ Live(line') = {}
        BY <1>1 DEF RowsOfTable, PlacesInv
  <2> QED BY <1>1, <2>1, BoxesAfter, BoxesEmpty
<1>3. /\ 0 <= lo'.x /\ 0 <= lo'.y /\ lo'.y <= YLimit
      /\ lo'.curBaseline <= VMargin /\ lo'.lastBaseline <= VMargin
  <2>1. CASE NextPage
        BY <2>1 DEF NextPage, PaperInv
  <2>2. CASE \E p \in 1 .. MaxPages : EarlierPage(p)
    <3>1. lo' = Reset(lo)
          BY <2>2 DEF EarlierPage
    <3> QED BY <3>1, ResetFields, ResetBlank, PaperSizes
  <2> QED BY <2>1, <2>2
<1> QED BY <1>2, <1>3, StillOnPaper

LEMMA PaperNext ==
  ASSUME TypeOK, RowsOfTable, RowsInHand, PlacesInv, PaperInv, LettersStand, SpacingGuards,
         MarginsFit, GlyphsFit, [Next]_vars
  PROVE  PaperInv'
<1>1. CASE SetOnLine BY <1>1, PaperOnLine
<1>2. CASE SetOnNextLine BY <1>2, PaperOnNextLine
<1>3. CASE SetBreak BY <1>3, PaperBreak
<1>4. CASE SkipImage BY <1>4, PaperSkip
<1>5. CASE BreakPage BY <1>5, PaperBreakPage
<1>6. CASE SetRow \/ SetLastRow BY <1>6, PaperRow
<1>7. CASE BreakTable BY <1>7, PaperBreakTable
<1>8. CASE EndDocument BY <1>8, PaperEnd
<1>9. CASE NextPage \/ \E p \in 1 .. MaxPages : EarlierPage(p)
      BY <1>9, PaperTurned
<1>10. CASE UNCHANGED vars
       BY <1>10 DEF vars, document, place, PaperInv, Settled, Waiting, IsRow, Live, Boxes
<1> QED BY <1>1, <1>2, <1>3, <1>4, <1>5, <1>6, <1>7, <1>8, <1>9, <1>10 DEF Next

LEMMA PaperInit ==
  ASSUME SpacingGuards, MarginsFit, Init
  PROVE  PaperInv
<1>1. ink = {} /\ rows = <<>> /\ line = <<>> /\ lo = NewPage(NewLayout)
      BY DEF Init
<1>2. Settled = {} /\ Waiting = {}
      BY <1>1, BoxesEmpty, LivesOf DEF Settled, Waiting
<1>3. /\ lo.x = VMargin /\ lo.y = HMargin + CtorSpacing
      /\ lo.curBaseline = 0 /\ lo.lastBaseline = 0
      BY <1>1, FirstPage, FirstBlank
<1> QED BY <1>2, <1>3, PaperSizes DEF PaperInv, MarginsFit

\* All that is drawn is on the paper, of characters that move down to their
\* baseline and of images that were scaled as well.
THEOREM NothingIsClipped ==
  ASSUME LettersStand, FiguresBeginLines, SpacingGuards, MarginsFit, GlyphsFit
  PROVE  Spec => []OnPaper
<1>1. Init => RowsInHand
      BY DEF Init, RowsInHand
<1>2. PaperInv => OnPaper
      BY DEF PaperInv, InPaper, Settled, OnPaper
<1> QED BY <1>1, <1>2, TypesInit, TypesNext, RowsInHandNext, PlacesInit, PlacesNext, PaperInit,
           PaperNext, PTL DEF Spec

=============================================================================
