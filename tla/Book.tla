-------------------------------- MODULE Book --------------------------------
(***************************************************************************)
(* What hg.h promises a reader who turns the pages of a document: it is    *)
(* shown in order, nothing is left out or shown twice, a page is over only *)
(* while there is more to show, and the last page is the one that ends     *)
(* with the end of the document.  A reader may close the book at any time; *)
(* opened again, it begins at the first page.                              *)
(*                                                                         *)
(* Module PageEngine implements this one for readers who only turn to the  *)
(* next page.                                                              *)
(***************************************************************************)
EXTENDS Integers, Sequences

CONSTANT Texts               \* sets of positions of what there is to show

VARIABLES
  text,                      \* the document
  open,                      \* a reader has it open
  sheet,                     \* what the page shows, in order
  read,                      \* what the reader was shown on all pages
  pages,                     \* pages that are finished
  ended                      \* the last page is finished

bookVars == <<text, open, sheet, read, pages, ended>>

Init ==
  /\ text \in Texts /\ open = FALSE
  /\ sheet = <<>> /\ read = {} /\ pages = 0 /\ ended = FALSE

Open ==
  /\ ~open /\ open' = TRUE
  /\ read' = {} /\ pages' = 0 /\ ended' = FALSE
  /\ UNCHANGED <<text, sheet>>

Close ==
  /\ open /\ open' = FALSE /\ sheet' = <<>>
  /\ UNCHANGED <<text, read, pages, ended>>

\* The reader is given an empty page.
NewSheet ==
  /\ open /\ sheet' = <<>>
  /\ UNCHANGED <<text, open, read, pages, ended>>

\* The first of what was not shown yet is shown.
Show ==
  /\ open /\ ~ended
  /\ \E k \in text \ read :
       /\ \A j \in text \ read : k <= j
       /\ read' = read \cup {k} /\ sheet' = Append(sheet, k)
  /\ UNCHANGED <<text, open, pages, ended>>

FinishPage ==
  /\ open /\ ~ended /\ read # text
  /\ pages' = pages + 1
  /\ UNCHANGED <<text, open, sheet, read, ended>>

FinishLastPage ==
  /\ open /\ ~ended /\ read = text
  /\ pages' = pages + 1 /\ ended' = TRUE
  /\ UNCHANGED <<text, open, sheet, read>>

Next == Open \/ Close \/ NewSheet \/ Show \/ FinishPage \/ FinishLastPage

Spec == Init /\ [][Next]_bookVars
=============================================================================
