------------------------------- MODULE Cursor -------------------------------
(***************************************************************************)
(* What the parser expects of a character stream: a read position in a     *)
(* document of `total` bytes, with one byte identified by its position     *)
(* 1..total.  Reading hands out the bytes in document order, pushing back  *)
(* undoes reads, seeking moves the position, and the end of the document   *)
(* is reported at its end and nowhere else.  lib/DocStream.cpp is the      *)
(* implementation; module DocStream refines this one in the foreground.    *)
(***************************************************************************)
EXTENDS Naturals

CONSTANT MaxLen        \* longest document considered

VARIABLES total,       \* length of the document
          pos,         \* bytes consumed: what GetCurOffset() should return
          got,         \* byte handed out by the last step, 0 if it handed out none
          ended        \* the parser was told that the document ends

cursorVars == <<total, pos, got, ended>>

Init == /\ total \in 0 .. MaxLen
        /\ pos = 0
        /\ got = 0
        /\ ended = FALSE

Read == /\ pos < total
        /\ pos' = pos + 1
        /\ got' = pos + 1
        /\ ended' = FALSE
        /\ UNCHANGED total

\* The last byte that is still consumed goes back to the stream.
Unread == /\ pos > 0
          /\ pos' = pos - 1
          /\ got' = 0
          /\ ended' = FALSE
          /\ UNCHANGED total

Seek == \E off \in 0 .. total :
          /\ pos' = off
          /\ got' = 0
          /\ ended' = FALSE
          /\ UNCHANGED total

End == /\ pos = total
       /\ ended' = TRUE
       /\ got' = 0
       /\ UNCHANGED <<total, pos>>

Next == Read \/ Unread \/ Seek \/ End

Spec == Init /\ [][Next]_cursorVars
=============================================================================
