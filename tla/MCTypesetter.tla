---------------------------- MODULE MCTypesetter ----------------------------
(* Documents for model checking Typesetter: all short sequences over a few  *)
(* items.                                                                   *)
EXTENDS Typesetter, SequencesExt

Small == Char(2, 2, 2)
Tall  == Char(3, 4, 4)
Deep  == Char(3, 4, 1)

\* Characters of three sizes and line breaks.
MCText == BoundedSeq({Small, Tall, Break}, 8)

\* Images too wide and too high for the page.
Wide == Graph(9, 18)
High == Graph(4, 20)

\* Tables and images that begin on a line of their own, and text after them.
OwnLine(s) ==
  \A k \in DOMAIN s : s[k].kind \in {"table", "graph", "broken"} => k > 1 /\ s[k - 1].kind = "break"

MCFigures ==
  {s \in BoundedSeq({Small, Break, Graph(3, 4), Table(6, <<2, 3, 2>>), Table(6, <<5, 5, 5, 3>>)}, 6) :
     OwnLine(s)}

\* Images of all sorts.
MCImages ==
  {s \in BoundedSeq({Small, Break, Wide, High, Graph(3, 4), Broken}, 6) : OwnLine(s)}

MCPages == MCText \cup MCFigures \cup MCImages

\* Documents short enough to be turned back in.
MCShort ==
  {s \in BoundedSeq({Small, Tall, Break, Table(6, <<2, 2, 3>>)}, 5) : OwnLine(s)}

\* A tall character after one that hangs below the baseline.
MCDescender == BoundedSeq({Small, Deep, Tall}, 2)

\* A table right after text.
MCTableInLine == BoundedSeq({Small, Tall, Break, Table(6, <<2, 3>>)}, 3)

\* Two rows that both fit on a page, but not one under the other.
MCRows == {<<Break, Table(6, <<9, 9, 9>>)>>}

\* Images that are scaled, or made, as high as the page.
MCFullPage == {<<Break, Graph(6, 16)>>, <<Break, Graph(7, 27)>>}

\* An image that is no taller than the line it has no more room on.
MCImage == BoundedSeq({Tall, Graph(6, 3)}, 3)
=============================================================================
