---------------------------- MODULE MCPageBased ----------------------------
(* Documents for model checking PageBased.  Characters of the earlier run   *)
(* have size 1 and those of the later run 1 or 2: a line has room for four  *)
(* of the small ones, or two of the large.                                  *)
EXTENDS PageBased

MCDocs == {
  \* a paragraph of several pages, with a blank inside, and a short one
  <<"L", "c", "c", "b", "c", "c", "c", "c", "c", "c", "c", "L", "c", "c", "L">>,
  \* line breaks, one by a newline
  <<"c", "n", "L", "c", "r", "c", "c", "b", "c", "c", "n", "L">>,
  \* one page, read in one go
  <<"L", "c", "c", "c", "L">> }
=============================================================================
