---------------------------- MODULE GlyphStream ----------------------------
(***************************************************************************)
(* lib/DocParser.cpp, fillGlyphStream and procWord: how the parser turns   *)
(* the html into glyphs, one bounded batch at a time.                      *)
(*                                                                         *)
(* A document is a sequence of tokens: "c" a visible character, "b" a      *)
(* blank, "r" a newline in the file, which breaks the line among words but *)
(* is a blank between tags, "n" a tag that makes a line break glyph at     *)
(* once (<br>, <div>), "L" any tag that makes none.  A glyph is the index  *)
(* of its token, the Eof glyph is one past the last.                       *)
(***************************************************************************)
EXTENDS Naturals, Sequences

CONSTANT WordMax             \* PROC_WORD_MAX

Token      == {"c", "b", "r", "n", "L"}
Tag        == {"n", "L"}
BlankChars == {"b", "r"}
LineBreaks == {"n", "r"}     \* what makes a line break glyph

EofGlyph(doc) == Len(doc) + 1

Least(S) == CHOOSE i \in S : \A j \in S : i <= j

\* Where the words that begin after index off end: the next tag, or the end.
WordsEnd(doc, off) ==
  Least({k \in off + 1 .. Len(doc) : doc[k] \in Tag} \cup {EofGlyph(doc)})

\* Without resumeProcWord, blanks and tags without a glyph are skipped first.
FirstShown(doc, off) ==
  Least({k \in off + 1 .. Len(doc) : doc[k] \in {"c", "n"}} \cup {EofGlyph(doc)})

Indices(i, j) == [k \in 1 .. (j - i) |-> i + k]      \* the indices i+1 .. j

\* What one call of fillGlyphStream does to the parser, and whether it gives
\* the current line its attributes.
Batch(glyphs, off, resume, setsAttrib) ==
  [glyphs |-> glyphs, off |-> off, resume |-> resume, setsAttrib |-> setsAttrib]

\* procWord until a tag (pushed back), until WordMax + 1 words, or until the
\* end, where GetNextGlyph puts Eof behind the words already buffered.
Words(doc, off, setsAttrib) ==
  LET e    == WordsEnd(doc, off)
      more == e - off - 1 > WordMax
  IN  IF more THEN Batch(Indices(off, off + WordMax + 1), off + WordMax + 1,
                         TRUE, setsAttrib)
      ELSE Batch(Indices(off, e - 1) \o (IF e = EofGlyph(doc) THEN <<e>> ELSE <<>>),
                 e - 1, FALSE, setsAttrib)

Fill(doc, off, resume) ==
  LET k == FirstShown(doc, off)
  IN  IF off = Len(doc) THEN Batch(<<EofGlyph(doc)>>, off, resume, FALSE)
      ELSE IF resume THEN Words(doc, off, FALSE)
      ELSE IF k = EofGlyph(doc) THEN Batch(<<k>>, Len(doc), FALSE, FALSE)
      ELSE IF doc[k] = "n" THEN Batch(<<k>>, k, FALSE, FALSE)
      ELSE Words(doc, k - 1, TRUE)

\* Reference: the tokens a document shows, whatever the batches were: blanks
\* and newlines count only behind a character of the same run of text.
ShownTokens(doc) ==
  {k \in DOMAIN doc :
     \/ doc[k] \in {"c", "n"}
     \/ /\ doc[k] \in BlankChars
        /\ \E j \in 1 .. k - 1 : doc[j] = "c" /\ \A i \in j .. k : doc[i] \notin Tag}
=============================================================================
