--------------------------- MODULE MCPageEngine ---------------------------
(* Documents for model checking PageEngine.  A line has room for two        *)
(* characters of width 2, or one in the first line of a paragraph.          *)
EXTENDS PageEngine

\* For readers who only turn pages: a page of two lines.
MCDocs == {
  \* a closed paragraph of several pages, a newline within
  <<"L", "c", "c", "b", "c", "c", "r", "c", "c", "c", "c", "c", "c", "L">>,
  \* line breaks, tags without a glyph, and text at the very end
  <<"c", "n", "L", "c", "b", "L", "r", "c", "c", "n", "c">>,
  \* nothing to show
  <<"L">> }

\* For readers who go back and forth: three pages of one line.
MCShort == { <<"L", "c", "c", "b", "c", "c", "L">>, <<"c", "n", "L", "c", "r", "c">> }

\* For readers who see a page again: one page's worth of text, and two with
\* a blank where a batch of the parser begins.
MCAgain == {
  <<"L", "c", "c", "c", "c", "L">>,
  <<"L", "c", "c", "c", "c", "c", "c", "b", "c", "c", "c", "L">> }
=============================================================================
