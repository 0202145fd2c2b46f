------------------------------ MODULE MCCells ------------------------------
(* Tables for model checking Cells.                                         *)
EXTENDS Cells, SequencesExt

a    == Char(3, 4, 3)
tall == Char(3, 6, 4)

Texts(glyphs, n) == BoundedSeq(glyphs, n)

\* Two columns, each of one size of characters; the texts break where they do
\* with or without the margin.
Row(s, t) == <<Cell(10, 0, "left", s), Cell(20, 10, "left", t)>>

MCTables ==
  {<<Row(s, t), Row(t, s), Row(s, t)>> :
     s \in Texts({a, Break}, 3), t \in Texts({tall, Break}, 4)}

MCLeads == {0, 9, 14, 20}

\* A column where the margin decides how many characters are on a line.
MCMargin == {<<<<Cell(23, 0, "left", t)>>, <<Cell(23, 0, "left", t)>>>> : t \in Texts({a}, 5)}

\* Centred cells.
MCCentred == {<<<<Cell(20, 0, "centre", t)>>, <<Cell(20, 0, "centre", t)>>>> : t \in Texts({a, Break}, 3)}

\* Characters of two sizes in a cell.
MCSizes == {<<<<Cell(20, 0, "left", t)>>, <<Cell(20, 0, "left", t)>>>> : t \in Texts({a, tall, Break}, 5)}
=============================================================================
