------------------------------ MODULE MCMarkup ------------------------------
(* Documents for model checking Markup, put together from what wvWare       *)
(* writes: paragraphs, lists and tables.                                    *)
EXTENDS Markup, SequencesExt

Para(style) == <<"br", style, "nl", "font", "c", "nl", "c", "nl", "/font", "c", "br">>
Item        == <<"li", "b", "br", "noi", "c", "b", "nl", "br">>
EmptyItem   == <<"li", "br", "br">>
Picture     == <<"br", "img", "x", "br">>
Title       == <<"title", "c", "c", "c", "/title">>

Bullets == <<"ul">> \o Item \o EmptyItem \o <<"/list">>
Numbers == <<"ol1">> \o EmptyItem \o Item \o <<"/list">>
Letters == <<"ola">> \o Item \o <<"/list">>

\* A list in a cell, and text in a font of its own behind a newline.
Grid == <<"table", "td", "ul", "li", "br", "c", "/list", "/td", "nl",
          "td", "nl", "font", "b", "c", "/font", "c", "/td", "/table">>

Parts == {Para("ind"), Para("noi"), Bullets, Numbers, Letters, Picture, Grid}

\* A table the end of the file cuts.
TornTable == <<"br", "table", "td", "c">>

\* Up to two parts, one behind a title, or a torn table; a numbered list is not
\* behind a lettered one.
Pairs  == BoundedSeq(Parts, 2) \ {<<Letters, Numbers>>}
MCDocs == {FlattenSeq(s) : s \in Pairs} \cup {Title \o t : t \in Parts} \cup {TornTable}

\* A numbered list that says so after a lettered one.
MCNumberedAfterLetters == {Letters \o Numbers}

\* A cell with an entity, and one with a style of its own.
MCCells == {<<"table", "td", "e", "/td", "/table">>,
            <<"table", "td", "ind", "c", "/td", "/table">>}
=============================================================================
